---- MODULE Spec2Model ----
(***************************************************************************)
(* Model of the GPU sub-allocator (render/alloc.rs), of the rectangle      *)
(* packer (render/atlas.rs), of the level baker (render/qmap.rs) and of    *)
(* the frame loop (render/mod.rs) of rust-quake.                           *)
(*                                                                         *)
(* Seven specifications share this module:                                 *)
(*   SpecChunk   one ChunkAlloc driven by allocate/free                    *)
(*   SpecGPU     a GPUAlloc<ChunkAlloc> driven by allocate/free/destroy    *)
(*   SpecMemory  a GPUAlloc<ChunkAlloc> over native device memory          *)
(*   SpecAtlas   one TextureAtlas driven by find                           *)
(*   SpecBaker   QMap::new on one level                                    *)
(*   SpecRender  one Renderer driven by draw/change_level/Drop             *)
(*   SpecRenderFair  SpecRender on a device that completes what it is given *)
(***************************************************************************)
EXTENDS Integers, Sequences, FiniteSets, TLC

VARIABLES
    ca,          \* ChunkAlloc under test: chunks, used, used_types, buffer_image_granularity
    live,        \* ranges returned by ca.allocate and not yet freed, with their kind
    caPanicked,  \* a call on ca panicked (assert!, out-of-range index)
    gpu,         \* GPUAlloc: limits, memory_types, memory
    allocs,      \* Allocations returned by GPUAlloc::allocate and not yet freed
    device,      \* native memory: capacity, objects handed out, free_memory calls per object
    gpuStatus,   \* "idle" (no GPUAlloc), "running", "panicked" or "destroyed"
    lastFree,    \* the Allocation freed by the last GPUAlloc call, if that was a free
    atlas,       \* TextureAtlas: free_rects, padding
    bounds,      \* width and height the atlas was created with
    placed,      \* rectangles returned by successful find calls, in call order
    lastFind,    \* the last find call: request, chosen free rectangle, result
    bsp,         \* the BspFile handed to QMap::new
    baked,       \* what QMap::new built from it: atlases, lightmap pixels, vertex streams
    rend,        \* Renderer: display_size, recreate_swapchain, frame, level, swapchain, command buffers
    gfxDevice    \* the device: live objects, pending command buffers, fences

chunkVars == <<ca, live, caPanicked>>
gpuVars   == <<gpu, allocs, device, gpuStatus, lastFree>>
atlasVars == <<atlas, bounds, placed, lastFind>>
bakerVars == <<bsp, baked>>
renderVars == <<rend, gfxDevice>>
vars      == <<ca, live, caPanicked, gpu, allocs, device, gpuStatus, lastFree,
               atlas, bounds, placed, lastFind, bsp, baked, rend, gfxDevice>>

-----------------------------------------------------------------------------
(* Constants of the program and bounds of the model *)

CHUNK_SIZE == 8192

\* chunks per region created by GPUMemory::allocate (scaled down from 64 MiB)
RegionChunks == 3
REGION_SIZE == RegionChunks * CHUNK_SIZE

\* chunks of the stand-alone ChunkAlloc of SpecChunk
TestChunks == 4

\* live allocations tracked per ChunkAlloc under test
MaxLive == 4

Types == {"Buffer", "Image"}

\* limits.buffer_image_granularity: half a chunk, one chunk, two chunks
Granularities == {CHUNK_SIZE \div 2, CHUNK_SIZE, 2 * CHUNK_SIZE}

\* requirements.alignment; the last one does not divide CHUNK_SIZE
Alignments == {256, CHUNK_SIZE, 2 * CHUNK_SIZE}

\* requirements.size for the stand-alone ChunkAlloc
TestSizes == {CHUNK_SIZE \div 2, CHUNK_SIZE, CHUNK_SIZE + 1, 2 * CHUNK_SIZE}

\* Body applied to the value of e, computed once
Let(e, Body(_)) == CHOOSE result \in {Body(v) : v \in {e}} : TRUE

Min(a, b) == IF a < b THEN a ELSE b
Max(a, b) == IF a > b THEN a ELSE b

-----------------------------------------------------------------------------
(* BitSet: a fixed number of bits, indexed from 0 *)

BitSetNew(n) == [i \in 0 .. n - 1 |-> FALSE]

BitSetInRange(bs, i) == i \in DOMAIN bs

BitSetGet(bs, i) == bs[i]

-----------------------------------------------------------------------------
(* ChunkAlloc *)

ChunkNew(size, buffer_image_granularity) ==
    LET chunks == size \div CHUNK_SIZE
    IN  [ chunks |-> chunks,
          used |-> BitSetNew(chunks),
          used_types |-> [i \in 0 .. (size \div buffer_image_granularity) - 1 |-> "None"],
          buffer_image_granularity |-> buffer_image_granularity ]

\* typ != None && typ != Some(ty)
TypeConflict(typ, ty) == typ # "None" /\ typ # ty

\* idx after one boundary check: skip ahead when the unit has the other kind
SkipOnConflict(self, ty, ty_idx, idx, skip) ==
    IF TypeConflict(self.used_types[ty_idx], ty) THEN idx + skip ELSE idx

\* The 'search loop of allocate, entered with the candidate start idx.
\* Result: "None" (a used_types.get(..)? failed), "Panic" (a bit index past
\* the bitset) or "Some" with the start chunk of a free run.
RECURSIVE Search(_, _, _, _)
Search(self, ty, chunks, idx) ==
    LET gran == self.buffer_image_granularity
        skip == (gran + (CHUNK_SIZE - 1)) \div CHUNK_SIZE
        ty_idx == (idx * CHUNK_SIZE) \div gran
    IN  IF ty_idx \notin DOMAIN self.used_types
        THEN [kind |-> "None", idx |-> idx]
        ELSE Let(SkipOnConflict(self, ty, ty_idx, idx, skip), LAMBDA idx1 :
        LET ty_idx_end == ((idx1 + chunks) * CHUNK_SIZE) \div gran
        IN  IF ty_idx_end \notin DOMAIN self.used_types
            THEN [kind |-> "None", idx |-> idx1]
            ELSE Let(SkipOnConflict(self, ty, ty_idx_end, idx1, skip), LAMBDA idx2 :
            LET offs == 0 .. chunks - 1
                busy == {off \in offs : BitSetInRange(self.used, idx2 + off)
                                        /\ BitSetGet(self.used, idx2 + off)}
                past == {off \in offs : ~BitSetInRange(self.used, idx2 + off)}
            IN  IF busy # {} THEN Search(self, ty, chunks, idx2 + 1)
                ELSE IF past # {} THEN [kind |-> "Panic", idx |-> idx2]
                ELSE [kind |-> "Some", idx |-> idx2]))

\* The claiming loop of allocate: set the bits and stamp the units of the
\* chunks idx .. idx+chunks-1.  used_types[ty_idx] panics past the array,
\* after the bit of that chunk was set.
ClaimChunks(self, ty, chunks, idx) ==
    LET gran == self.buffer_image_granularity
        unit(off) == ((idx + off) * CHUNK_SIZE) \div gran
        bad == {off \in 0 .. chunks - 1 : unit(off) \notin DOMAIN self.used_types}
        stop == IF bad = {} THEN chunks
                ELSE CHOOSE off \in bad : \A o \in bad : off <= o
        bits == IF bad = {} THEN chunks ELSE stop + 1
    IN  [ panic |-> bad # {},
          self |-> [self EXCEPT
                      !.used = [i \in DOMAIN self.used |->
                                  IF i >= idx /\ i < idx + bits THEN TRUE
                                  ELSE self.used[i]],
                      !.used_types = [u \in DOMAIN self.used_types |->
                                  IF \E off \in 0 .. stop - 1 : unit(off) = u
                                  THEN ty ELSE self.used_types[u]]] ]

\* ChunkAlloc::allocate: the result kind, the returned range and the
\* allocator afterwards.
ChunkAllocate(self, ty, size, align) ==
    IF align = 0 \/ CHUNK_SIZE % align # 0
    THEN [kind |-> "Panic", range |-> [start |-> 0, end |-> 0], self |-> self]
    ELSE
    LET chunks == (size + (CHUNK_SIZE - 1)) \div CHUNK_SIZE
    IN  Let(Search(self, ty, chunks, 0), LAMBDA found :
        IF found.kind # "Some"
        THEN [kind |-> found.kind, range |-> [start |-> 0, end |-> 0], self |-> self]
        ELSE Let(ClaimChunks(self, ty, chunks, found.idx), LAMBDA claimed :
             [ kind |-> IF claimed.panic THEN "Panic" ELSE "Some",
               range |-> [start |-> found.idx * CHUNK_SIZE,
                          end |-> found.idx * CHUNK_SIZE + size],
               self |-> claimed.self ]))

\* ChunkFree with the end chunk cleared as well (an off-by-one in the loop bound)
ChunkFreeInclusiveEnd(self, range) ==
    LET start == (range.start + (CHUNK_SIZE - 1)) \div CHUNK_SIZE
        end == (range.end + (CHUNK_SIZE - 1)) \div CHUNK_SIZE
    IN  [self EXCEPT !.used = [i \in DOMAIN self.used |->
                                 IF i >= start /\ i <= end THEN FALSE
                                 ELSE self.used[i]]]

\* ChunkFree with the end rounded down: the bit of a part-filled last chunk stays
ChunkFreeFloorEnd(self, range) ==
    LET start == (range.start + (CHUNK_SIZE - 1)) \div CHUNK_SIZE
        end == range.end \div CHUNK_SIZE
    IN  [self EXCEPT !.used = [i \in DOMAIN self.used |->
                                 IF i >= start /\ i < end THEN FALSE
                                 ELSE self.used[i]]]

\* ChunkAlloc::free: clears the bits ceil(start/CHUNK) .. ceil(end/CHUNK)-1,
\* the type tags stay.
ChunkFree(self, range) ==
    LET start == (range.start + (CHUNK_SIZE - 1)) \div CHUNK_SIZE
        end == (range.end + (CHUNK_SIZE - 1)) \div CHUNK_SIZE
    IN  [self EXCEPT !.used = [i \in DOMAIN self.used |->
                                 IF i >= start /\ i < end THEN FALSE
                                 ELSE self.used[i]]]

-----------------------------------------------------------------------------
(* SpecChunk: one ChunkAlloc, any interleaving of allocate and free *)

NoChunkAlloc == ChunkNew(0, CHUNK_SIZE)

ChunkIdle ==
    /\ ca = NoChunkAlloc
    /\ live = <<>>
    /\ caPanicked = FALSE

RemoveAt(s, i) == [j \in 1 .. Len(s) - 1 |-> IF j < i THEN s[j] ELSE s[j + 1]]

CaAllocate(ty, size, align) ==
    /\ ~caPanicked
    /\ Len(live) < MaxLive
    /\ \E r \in {ChunkAllocate(ca, ty, size, align)} :
           /\ ca' = r.self
           /\ caPanicked' = (r.kind = "Panic")
           /\ live' = IF r.kind = "Some"
                      THEN Append(live, [range |-> r.range, ty |-> ty])
                      ELSE live

CaFree(i) ==
    /\ ~caPanicked
    /\ i \in DOMAIN live
    /\ ca' = ChunkFree(ca, live[i].range)
    /\ live' = RemoveAt(live, i)
    /\ UNCHANGED caPanicked

-----------------------------------------------------------------------------
(* GPUAlloc, GPUMemory and the device's native memory *)

\* native memory objects the device of SpecGPU hands out before allocate_memory fails
MaxNative == 3

\* the same for the device of SpecMemory
MemoryNative == 2

\* limits.buffer_image_granularity of the devices of SpecGPU and SpecMemory
GpuGranularities == {CHUNK_SIZE \div 2, CHUNK_SIZE}

\* requirements.size in SpecGPU: the largest request a region serves, and a whole region
GpuSizes == {REGION_SIZE - CHUNK_SIZE, REGION_SIZE}

\* requirements.size in SpecMemory: one chunk, and a whole region
MemorySizes == {CHUNK_SIZE, REGION_SIZE}

\* requirements.type_mask: bit i stands for memory type i
TypeMasks == {1, 2, 3}

\* requested memory::Properties
PropertySets == {{"DEVICE_LOCAL"}, {"CPU_VISIBLE"}}

\* memory types reported by the adapter, indexed from 0
DeviceMemoryTypes ==
    [id \in 0 .. 1 |-> IF id = 0 THEN {"DEVICE_LOCAL"}
                       ELSE {"DEVICE_LOCAL", "CPU_VISIBLE", "COHERENT"}]

RECURSIVE Pow2(_)
Pow2(n) == IF n = 0 THEN 1 ELSE 2 * Pow2(n - 1)

\* requirements.type_mask & (1 << id) != 0
TypeMaskHas(type_mask, id) == (type_mask \div Pow2(id)) % 2 = 1

\* line 37 / lines 47-48: the memory type id with properties ty serves the request
Compatible(type_mask, id, ty, properties) ==
    TypeMaskHas(type_mask, id) /\ properties \subseteq ty

DeviceNew(capacity) == [capacity |-> capacity, allocated |-> 0, freed |-> <<>>]

\* device.allocate_memory: Err once the device has handed out all it has
DeviceAllocate(dev) ==
    IF dev.allocated >= dev.capacity
    THEN [ok |-> FALSE, id |-> 0, dev |-> dev]
    ELSE [ok |-> TRUE, id |-> dev.allocated + 1,
          dev |-> [dev EXCEPT !.allocated = @ + 1, !.freed = Append(@, 0)]]

\* device.free_memory
DeviceFree(dev, id) == [dev EXCEPT !.freed[id] = @ + 1]

NoAllocation == [owner |-> 0, memory |-> 0, range |-> [start |-> 0, end |-> 0]]

\* The "Try existing regions" loop of GPUMemory::allocate from region i on:
\* the first region whose allocator does not answer None decides.
RECURSIVE TryRegions(_, _, _, _, _)
TryRegions(regions, i, ty, size, align) ==
    IF i > Len(regions)
    THEN [kind |-> "None", at |-> 0,
          res |-> [kind |-> "None", range |-> [start |-> 0, end |-> 0],
                   self |-> NoChunkAlloc]]
    ELSE Let(ChunkAllocate(regions[i].alloc, ty, size, align), LAMBDA r :
             IF r.kind = "None" THEN TryRegions(regions, i + 1, ty, size, align)
             ELSE [kind |-> r.kind, at |-> i, res |-> r])

\* GPUMemory::allocate.  kind "Some": the Allocation is returned; "Panic":
\* an unwrap, expect, assert or index panicked.  newRegion: allocate_memory
\* was called and succeeded.
GPUMemoryAllocate(self, granularity, dev, ty, size, align) ==
    Let(TryRegions(self.regions, 1, ty, size, align), LAMBDA tried :
        IF tried.kind = "Some"
        THEN [kind |-> "Some", newRegion |-> FALSE, dev |-> dev,
              self |-> [self EXCEPT !.regions[tried.at].alloc = tried.res.self],
              allocation |-> [owner |-> self.id,
                              memory |-> self.regions[tried.at].mem,
                              range |-> tried.res.range]]
        ELSE IF tried.kind = "Panic"
        THEN [kind |-> "Panic", newRegion |-> FALSE, dev |-> dev,
              self |-> [self EXCEPT !.regions[tried.at].alloc = tried.res.self],
              allocation |-> NoAllocation]
        ELSE
        Let(DeviceAllocate(dev), LAMBDA native :
        Let(ChunkNew(REGION_SIZE, granularity), LAMBDA empty :
        Let(ChunkAllocate(empty, ty, size, align), LAMBDA fresh :
        LET region == [alloc |-> fresh.self, mem |-> native.id]
        IN  IF ~native.ok
            THEN [kind |-> "Panic", newRegion |-> FALSE, dev |-> dev,
                  self |-> self, allocation |-> NoAllocation]
            ELSE IF fresh.kind = "Panic"
            \* the region is dropped while unwinding, it was never pushed
            THEN [kind |-> "Panic", newRegion |-> TRUE, dev |-> native.dev,
                  self |-> self, allocation |-> NoAllocation]
            ELSE [kind |-> IF fresh.kind = "Some" THEN "Some" ELSE "Panic",
                  newRegion |-> TRUE, dev |-> native.dev,
                  self |-> [self EXCEPT !.regions = Append(@, region)],
                  allocation |-> IF fresh.kind = "Some"
                                 THEN [owner |-> self.id, memory |-> native.id,
                                       range |-> fresh.range]
                                 ELSE NoAllocation]))))

\* GPUMemory::free: the region whose memory object is alloc.memory frees the range
GPUMemoryFree(self, alloc) ==
    LET hits == {i \in DOMAIN self.regions : self.regions[i].mem = alloc.memory}
    IN  IF hits = {} THEN self
        ELSE LET i == CHOOSE h \in hits : \A o \in hits : h <= o
             IN  [self EXCEPT !.regions[i].alloc = ChunkFree(@, alloc.range)]

\* GPUMemoryDestroy that stops one region early
RECURSIVE GPUMemoryDestroySkipLast(_, _, _)
GPUMemoryDestroySkipLast(regions, i, dev) ==
    IF i >= Len(regions) THEN dev
    ELSE GPUMemoryDestroySkipLast(regions, i + 1, DeviceFree(dev, regions[i].mem))

\* GPUMemory::destroy: free_memory for the memory object of every region
\* from region i on
RECURSIVE GPUMemoryDestroy(_, _, _)
GPUMemoryDestroy(regions, i, dev) ==
    IF i > Len(regions) THEN dev
    ELSE GPUMemoryDestroy(regions, i + 1, DeviceFree(dev, regions[i].mem))

\* index in self.memory (from 1) of the first entry that serves the request, 0 if none
FirstCompatibleMemory(self, type_mask, properties) ==
    LET hits == {i \in DOMAIN self.memory :
                    Compatible(type_mask, self.memory[i].type_id,
                               self.memory[i].ty, properties)}
    IN  IF hits = {} THEN 0 ELSE CHOOSE h \in hits : \A o \in hits : h <= o

\* the first compatible memory type id of self.memory_types, -1 if none (unwrap panics)
FirstCompatibleType(self, type_mask, properties) ==
    LET hits == {id \in DOMAIN self.memory_types :
                    Compatible(type_mask, id, self.memory_types[id], properties)}
    IN  IF hits = {} THEN -1 ELSE CHOOSE h \in hits : \A o \in hits : h <= o

\* GPUAlloc::allocate
GPUAllocate(self, dev, ty, size, align, type_mask, properties) ==
    Let(FirstCompatibleMemory(self, type_mask, properties), LAMBDA m :
    Let(FirstCompatibleType(self, type_mask, properties), LAMBDA memory_type_id :
        IF m # 0
        THEN Let(GPUMemoryAllocate(self.memory[m], self.limits, dev, ty, size, align),
                 LAMBDA r :
                 [kind |-> r.kind, newRegion |-> r.newRegion, dev |-> r.dev,
                  allocation |-> r.allocation, owner |-> self.memory[m].id,
                  self |-> [self EXCEPT !.memory[m] = r.self]])
        ELSE IF memory_type_id = -1
        THEN [kind |-> "Panic", newRegion |-> FALSE, dev |-> dev,
              allocation |-> NoAllocation, owner |-> Len(self.memory), self |-> self]
        ELSE Let([id |-> Len(self.memory),
                  type_id |-> memory_type_id,
                  ty |-> self.memory_types[memory_type_id],
                  regions |-> <<>>], LAMBDA memory :
             Let(GPUMemoryAllocate(memory, self.limits, dev, ty, size, align),
                 LAMBDA r :
                 [kind |-> r.kind, newRegion |-> r.newRegion, dev |-> r.dev,
                  allocation |-> r.allocation, owner |-> memory.id,
                  \* a panic unwinds before self.memory.push(memory)
                  self |-> IF r.kind = "Panic" THEN self
                           ELSE [self EXCEPT !.memory = Append(@, r.self)]]))))

\* GPUAlloc::free
GPUFree(self, alloc) ==
    [self EXCEPT !.memory[alloc.owner + 1] = GPUMemoryFree(@, alloc)]

\* GPUAlloc::destroy
RECURSIVE GPUDestroy(_, _, _)
GPUDestroy(memory, i, dev) ==
    IF i > Len(memory) THEN dev
    ELSE GPUDestroy(memory, i + 1, GPUMemoryDestroy(memory[i].regions, 1, dev))

-----------------------------------------------------------------------------
(* SpecGPU: GPUAlloc::new, then allocate / free, then destroy *)

\* owner: the id of the memory entry the Allocation belonged to
NoFree == [valid |-> FALSE, ty |-> "Buffer", len |-> 0, owner |-> 0]


GPUNew(granularity, memory_types) ==
    [limits |-> granularity, memory_types |-> memory_types, memory |-> <<>>]

GpuIdle ==
    /\ gpu = GPUNew(CHUNK_SIZE, DeviceMemoryTypes)
    /\ allocs = {}
    /\ device = DeviceNew(0)
    /\ gpuStatus = "idle"
    /\ lastFree = NoFree

GAllocate(ty, size, align, type_mask, properties) ==
    /\ gpuStatus = "running"
    /\ \E r \in {GPUAllocate(gpu, device, ty, size, align, type_mask, properties)} :
           /\ gpu' = r.self
           /\ device' = r.dev
           /\ gpuStatus' = IF r.kind = "Panic" THEN "panicked" ELSE "running"
           /\ allocs' = IF r.kind = "Some"
                        THEN allocs \cup {[owner |-> r.allocation.owner,
                                           memory |-> r.allocation.memory,
                                           range |-> r.allocation.range,
                                           ty |-> ty]}
                        ELSE allocs
           /\ lastFree' = NoFree

GFree(a) ==
    /\ gpuStatus = "running"
    /\ a \in allocs
    /\ gpu' = GPUFree(gpu, [owner |-> a.owner, memory |-> a.memory, range |-> a.range])
    /\ allocs' = allocs \ {a}
    /\ lastFree' = [valid |-> TRUE, ty |-> a.ty,
                    len |-> a.range.end - a.range.start, owner |-> a.owner]
    /\ UNCHANGED <<device, gpuStatus>>

GDestroy ==
    /\ gpuStatus = "running"
    /\ device' = GPUDestroy(gpu.memory, 1, device)
    /\ gpuStatus' = "destroyed"
    /\ lastFree' = NoFree
    /\ UNCHANGED <<gpu, allocs>>

-----------------------------------------------------------------------------
(* TextureAtlas *)

\* largest width and height of the atlases created
MaxAtlas == 6

\* width and height of the atlases created
AtlasSizes == {MaxAtlas - 2, MaxAtlas}

\* padding given to new_padded
Paddings == {0, 1}

\* largest width and height asked of find
MaxRequest == 2

\* successful find calls followed per atlas
MaxFinds == 3

Rect(x, y, width, height) == [x |-> x, y |-> y, width |-> width, height |-> height]

NoRect == Rect(0, 0, 0, 0)

AtlasNewPadded(width, height, padding) ==
    [free_rects |-> <<Rect(0, 0, width, height)>>, padding |-> padding]

AtlasNew(width, height) ==
    [free_rects |-> <<Rect(0, 0, width, height)>>, padding |-> 0]

\* (free.width - width) * (free.height - height); the atlases of the model
\* (and the 1024 x 1024 ones of the program) keep the product within i32
Score(free, width, height) == (free.width - width) * (free.height - height)

\* BestFit without the test free.height >= height
RECURSIVE BestFitWidthOnly(_, _, _, _, _)
BestFitWidthOnly(free_rects, i, width, height, best) ==
    IF i > Len(free_rects) THEN best
    ELSE LET free == free_rects[i]
             score == Score(free, width, height)
         IN  IF /\ score >= 0
                /\ free.width >= width
                /\ (best.idx = 0 \/ best.score > score)
             THEN IF score = 0 THEN [score |-> score, idx |-> i]
                  ELSE BestFitWidthOnly(free_rects, i + 1, width, height,
                                        [score |-> score, idx |-> i])
             ELSE BestFitWidthOnly(free_rects, i + 1, width, height, best)

\* BestFit that passes over a free rectangle exactly as wide as the request
RECURSIVE BestFitStrictWidth(_, _, _, _, _)
BestFitStrictWidth(free_rects, i, width, height, best) ==
    IF i > Len(free_rects) THEN best
    ELSE LET free == free_rects[i]
             score == Score(free, width, height)
         IN  IF /\ score >= 0
                /\ free.width > width /\ free.height >= height
                /\ (best.idx = 0 \/ best.score > score)
             THEN IF score = 0 THEN [score |-> score, idx |-> i]
                  ELSE BestFitStrictWidth(free_rects, i + 1, width, height,
                                          [score |-> score, idx |-> i])
             ELSE BestFitStrictWidth(free_rects, i + 1, width, height, best)

\* The search loop of find from free rectangle i on; best.idx = 0 stands for None.
RECURSIVE BestFit(_, _, _, _, _)
BestFit(free_rects, i, width, height, best) ==
    IF i > Len(free_rects) THEN best
    ELSE LET free == free_rects[i]
             score == Score(free, width, height)
         IN  IF /\ score >= 0
                /\ free.width >= width /\ free.height >= height
                /\ (best.idx = 0 \/ best.score > score)
             THEN IF score = 0 THEN [score |-> score, idx |-> i]
                  ELSE BestFit(free_rects, i + 1, width, height,
                               [score |-> score, idx |-> i])
             ELSE BestFit(free_rects, i + 1, width, height, best)

\* SplitRects without the assignment rect.width = width: the strip below
\* keeps the full width
SplitRectsWideBelow(rect, width, height) ==
    LET right == IF rect.width - width > 0
                 THEN <<Rect(rect.x + width, rect.y, rect.width - width, rect.height)>>
                 ELSE <<>>
        below == IF rect.height - height > 0
                 THEN <<Rect(rect.x, rect.y + height, rect.width, rect.height - height)>>
                 ELSE <<>>
    IN  right \o below

\* SplitRects that pushes the two strips even when they are empty
SplitRectsKeepEmpty(rect, width, height) ==
    << Rect(rect.x + width, rect.y, rect.width - width, rect.height),
       Rect(rect.x, rect.y + height, width, rect.height - height) >>

\* The free rectangles pushed after carving width x height out of rect:
\* the strip to the right over the full height, then the strip below,
\* as wide as the carved rectangle.
SplitRects(rect, width, height) ==
    LET right == IF rect.width - width > 0
                 THEN <<Rect(rect.x + width, rect.y, rect.width - width, rect.height)>>
                 ELSE <<>>
        rwidth == IF rect.width - width > 0 THEN width ELSE rect.width
        below == IF rect.height - height > 0
                 THEN <<Rect(rect.x, rect.y + height, rwidth, rect.height - height)>>
                 ELSE <<>>
    IN  right \o below

\* Deflate that moves the rectangle but keeps the padded size
DeflateOriginOnly(ret, padding) ==
    Rect(ret.x + padding, ret.y + padding, ret.width, ret.height)

\* The rectangle handed to the caller: the carved one without its padding
Deflate(ret, padding) ==
    Rect(ret.x + padding, ret.y + padding,
         ret.width - padding * 2, ret.height - padding * 2)

\* TextureAtlas::find
AtlasFind(self, w, h) ==
    LET width == w + self.padding * 2
        height == h + self.padding * 2
        best == BestFit(self.free_rects, 1, width, height, [score |-> 0, idx |-> 0])
    IN  IF best.idx = 0
        THEN [found |-> FALSE, rect |-> NoRect, chosen |-> NoRect, self |-> self]
        ELSE LET rect == self.free_rects[best.idx]
                 ret == Rect(rect.x, rect.y, width, height)
             IN  [found |-> TRUE,
                  rect |-> Deflate(ret, self.padding),
                  chosen |-> rect,
                  self |-> [self EXCEPT !.free_rects =
                              RemoveAt(self.free_rects, best.idx)
                              \o SplitRects(rect, width, height)]]

-----------------------------------------------------------------------------
(* SpecAtlas: TextureAtlas::new or new_padded, then find calls *)

NoFind == [w |-> 0, h |-> 0, found |-> FALSE, rect |-> NoRect, chosen |-> NoRect]

AtlasIdle ==
    /\ atlas = AtlasNew(0, 0)
    /\ bounds = [width |-> 0, height |-> 0]
    /\ placed = <<>>
    /\ lastFind = NoFind

Find(w, h) ==
    /\ Len(placed) < MaxFinds
    /\ \E r \in {AtlasFind(atlas, w, h)} :
           /\ atlas' = r.self
           /\ placed' = IF r.found THEN Append(placed, r.rect) ELSE placed
           /\ lastFind' = [w |-> w, h |-> h, found |-> r.found,
                           rect |-> r.rect, chosen |-> r.chosen]
    /\ UNCHANGED bounds

-----------------------------------------------------------------------------
(* QMap::new, the level baker: texture packing, lightmap sizing pass,       *)
(* lightmap packing and copy, geometry emission.  f32 values are integers   *)
(* or, for the centroid, a vector over a common denominator.                *)

\* width and height of the texture atlas and of the lightmap atlas of the
\* baker (scaled down from 1024)
AtlasSide == 10
ATLAS_SIZE == AtlasSide

\* faces per level
MaxFaces == 2

\* Vec<T> indexing from 0
At(vec, i) == vec[i + 1]

Dot(a, b) == a[1] * b[1] + a[2] * b[2] + a[3] * b[3]

Abs(n) == IF n < 0 THEN -n ELSE n

\* (num / den).floor() and (num / den).ceil() for den > 0
Floor(num, den) == num \div den
Ceil(num, den) == -((-num) \div den)

\* (num / den) as i16 for den > 0: the fraction is cut off towards zero
Trunc(num, den) == IF num >= 0 THEN num \div den ELSE -((-num) \div den)

\* tex.name.starts_with(prefix)
StartsWith(name, prefix) ==
    Len(name) >= Len(prefix) /\ SubSeq(name, 1, Len(prefix)) = prefix

\* lines 232-235: the first character of the name is '+' or '*'
IsLiquidOrAnimated(name) == Len(name) >= 1 /\ name[1] \in {"+", "*"}

\* SkipFace that forgets the texture name
SkipFaceIdOnly(tex) == tex.id = -1

\* lines 146 and 221: unused texture, or the collision-only "trigger" texture
SkipFace(tex) == tex.id = -1 \/ tex.name = <<"t", "r", "i", "g", "g", "e", "r">>

\* line 149: the face takes part in the lightmap sizing pass
HasLightTile(face) == ~(face.light_map = -1 \/ face.type_light = 255)

\* Clamp that wraps around instead
ClampWrap(v, size) == v % size

\* lines 201-202: max(min(v, size - 1), 0)
Clamp(v, size) == Max(Min(v, size - 1), 0)

TSortable(idx, width, height, visit) ==
    [idx |-> idx, width |-> width, height |-> height, visit |-> visit]

\* Ord for TSortable: -1 (Less), 0 (Equal), 1 (Greater) by width * height
TSortableCmp(a, b) ==
    IF a.width * a.height < b.width * b.height THEN -1
    ELSE IF a.width * a.height > b.width * b.height THEN 1 ELSE 0

\* t placed behind every element of the sorted list that is not Greater
InsertSorted(sorted, t) ==
    LET later == {i \in DOMAIN sorted : TSortableCmp(sorted[i], t) = 1}
        at == IF later = {} THEN Len(sorted) + 1
              ELSE CHOOSE i \in later : \A j \in later : i <= j
    IN  SubSeq(sorted, 1, at - 1) \o <<t>> \o SubSeq(sorted, at, Len(sorted))

\* Vec::sort: a stable sort by TSortableCmp, of list[1 .. n]
RECURSIVE SortFirst(_, _)
SortFirst(list, n) ==
    IF n = 0 THEN <<>> ELSE InsertSorted(SortFirst(list, n - 1), list[n])

Sort(list) == SortFirst(list, Len(list))

\* lines 111-118: the textures with id != -1 as TSortables, in table order
RECURSIVE TextureList(_, _)
TextureList(b, n) ==
    IF n = 0 THEN <<>>
    ELSE LET v == b.textures[n]
         IN  IF v.id # -1
             THEN Append(TextureList(b, n - 1), TSortable(v.id, v.width, v.height, 0))
             ELSE TextureList(b, n - 1)

\* lines 121-125: find a place for the textures t_list[i ..] in this order
RECURSIVE PackTextures(_, _, _, _, _)
PackTextures(b, t_list, i, atlas0, textures) ==
    IF i > Len(t_list) THEN [panic |-> FALSE, textures |-> textures]
    ELSE LET tex == At(b.textures, t_list[i].idx)
         IN  Let(AtlasFind(atlas0, tex.width, tex.height), LAMBDA r :
                 IF ~r.found THEN [panic |-> TRUE, textures |-> textures]
                 ELSE PackTextures(b, t_list, i + 1, r.self,
                                   [textures EXCEPT ![tex.id + 1] = r.rect]))

\* lines 142-143 and 217-218: the faces in the order the passes visit them,
\* each with the model it is visited for
RECURSIVE FaceOrder(_, _)
FaceOrder(b, m) ==
    IF m = 0 THEN <<>>
    ELSE FaceOrder(b, m - 1)
         \o [k \in 1 .. (b.models[m].faces.end - b.models[m].faces.start) |->
                [model |-> m, face |-> b.models[m].faces.start + k]]

\* the vertex a ledge starts from in the sizing pass (lines 159-163)
LedgeStart(b, ledge) ==
    IF ledge < 0 THEN At(b.edges, -ledge)[2] ELSE At(b.edges, ledge)[1]

\* the ledges of a face, as a sequence
FaceLedges(b, face) ==
    [k \in 1 .. (face.ledges.end - face.ledges.start) |->
        b.ledges[face.ledges.start + k]]

\* lines 153-172 and 265-280: the extent of a face in texture space, over
\* the start vertices of its ledges
LightExtent(b, face) ==
    LET tex_info == At(b.texture_info, face.texture_info)
        ledges == FaceLedges(b, face)
        vals_s == {Dot(LedgeStart(b, ledges[k]), tex_info.vector_s) + tex_info.dist_s
                      : k \in DOMAIN ledges}
        vals_t == {Dot(LedgeStart(b, ledges[k]), tex_info.vector_t) + tex_info.dist_t
                      : k \in DOMAIN ledges}
    IN  [min_s |-> CHOOSE v \in vals_s : \A o \in vals_s : v <= o,
         max_s |-> CHOOSE v \in vals_s : \A o \in vals_s : v >= o,
         min_t |-> CHOOSE v \in vals_t : \A o \in vals_t : v <= o,
         max_t |-> CHOOSE v \in vals_t : \A o \in vals_t : v >= o]

\* lines 174-186: the lightmap tile of a face; visit is the place of the
\* face in the order of the pass
LightTile(b, face, visit) ==
    LET extent == LightExtent(b, face)
        light_s == Floor(extent.min_s, 16)
        light_t == Floor(extent.min_t, 16)
        light_sm == Ceil(extent.max_s, 16)
        light_tm == Ceil(extent.max_t, 16)
    IN  TSortable(face.light_map, (light_sm - light_s) + 1, (light_tm - light_t) + 1, visit)

\* lines 142-188: the sizing pass over order[1 .. n]
RECURSIVE SizingPass(_, _, _)
SizingPass(b, order, n) ==
    IF n = 0 THEN <<>>
    ELSE LET face == b.faces[order[n].face]
             tex == At(b.textures, At(b.texture_info, face.texture_info).texture)
         IN  IF SkipFace(tex) \/ ~HasLightTile(face)
             THEN SizingPass(b, order, n - 1)
             ELSE Append(SizingPass(b, order, n - 1), LightTile(b, face, n))

\* lines 196-206: the copy of one tile and its one-pixel border into the
\* lightmap atlas; a cell written twice keeps the later write
CopyTile(b, data, v, rect) ==
    LET cells == (-1 .. v.width) \X (-1 .. v.height)
        idx(c) == (rect.x + c[1]) + (rect.y + c[2]) * ATLAS_SIZE
        sidx(c) == Clamp(c[1], v.width) + Clamp(c[2], v.height) * v.width
        bad == \E c \in cells :
                  \/ rect.x + c[1] < 0 \/ rect.y + c[2] < 0
                  \/ idx(c) \notin DOMAIN data
                  \/ v.idx + sidx(c) \notin DOMAIN b.light_maps
        last(i) == CHOOSE c \in cells :
                      /\ idx(c) = i
                      /\ \A o \in cells : idx(o) = i =>
                            (o[2] < c[2] \/ (o[2] = c[2] /\ o[1] <= c[1]))
    IN  [panic |-> bad,
         data |-> IF bad THEN data
                  ELSE [i \in DOMAIN data |->
                          IF \E c \in cells : idx(c) = i
                          THEN b.light_maps[v.idx + sidx(last(i))]
                          ELSE data[i]]]

\* lines 193-209: place and copy the tiles lights[i ..] in this order
RECURSIVE PackLights(_, _, _, _, _, _)
PackLights(b, lights, i, light_atlas, data, tiles) ==
    IF i > Len(lights)
    THEN [panic |-> FALSE, light_map_data |-> data, tiles |-> tiles]
    ELSE Let(AtlasFind(light_atlas, lights[i].width, lights[i].height), LAMBDA r :
         IF ~r.found
         THEN [panic |-> TRUE, light_map_data |-> data, tiles |-> tiles]
         ELSE Let(CopyTile(b, data, lights[i], r.rect), LAMBDA c :
              IF c.panic
              THEN [panic |-> TRUE, light_map_data |-> data, tiles |-> tiles]
              ELSE PackLights(b, lights, i + 1, r.self, c.data,
                              Append(tiles, [idx |-> lights[i].idx, rect |-> r.rect,
                                             width |-> lights[i].width,
                                             height |-> lights[i].height,
                                             visit |-> lights[i].visit]))))

\* lights[&idx] of the HashMap collected at line 209: the last tile with this
\* key; found is FALSE when the key is missing (the index panics)
LightRect(tiles, idx) ==
    LET hits == {i \in DOMAIN tiles : tiles[i].idx = idx}
    IN  IF hits = {} THEN [found |-> FALSE, rect |-> NoRect]
        ELSE [found |-> TRUE,
              rect |-> tiles[CHOOSE i \in hits : \A j \in hits : i >= j].rect]

\* the point v / den
Point(v, den) == [v |-> v, den |-> den]

\* lines 241-250: the sum of both endpoints of the edges of ledges[1 .. n]
RECURSIVE SumEnds(_, _, _)
SumEnds(b, ledges, n) ==
    IF n = 0 THEN <<0, 0, 0>>
    ELSE LET e == At(b.edges, Abs(ledges[n]))
             rest == SumEnds(b, ledges, n - 1)
         IN  <<rest[1] + e[1][1] + e[2][1],
               rest[2] + e[1][2] + e[2][2],
               rest[3] + e[1][3] + e[2][3]>>

\* lines 314-345: the Vertex pushed for the point p of a face
MakeVertex(ctx, p) ==
    LET p_s == Dot(p.v, ctx.tex_info.vector_s) + ctx.tex_info.dist_s * p.den
        p_t == Dot(p.v, ctx.tex_info.vector_t) + ctx.tex_info.dist_t * p.den
        p_tx == IF ctx.face.light_map # -1
                THEN Floor(p_s, 16 * p.den) - ctx.light_s ELSE -1
        p_ty == IF ctx.face.light_map # -1
                THEN Floor(p_t, 16 * p.den) - ctx.light_t ELSE -1
    IN  [position |-> Point(<<ctx.model.origin[1] * p.den + p.v[1],
                              ctx.model.origin[2] * p.den + p.v[2],
                              ctx.model.origin[3] * p.den + p.v[3]>>, p.den),
         tex |-> <<ctx.trect.x, ctx.trect.y>>,
         tex_info |-> <<Trunc(p_s, p.den), Trunc(p_t, p.den),
                        ctx.tex.width, ctx.tex.height>>,
         light_info |-> <<ctx.t_offset[1] + p_tx, ctx.t_offset[2] + p_ty>>,
         light |-> ctx.light,
         light_type |-> ctx.type_light,
         visit |-> ctx.visit]

\* WedgeEnds that pushes the start of the directed edge first
WedgeEndsStartFirst(b, ledge) ==
    LET e == At(b.edges, Abs(ledge))
    IN  IF ledge >= 0 THEN <<e[1], e[2]>> ELSE <<e[2], e[1]>>

\* lines 296-301: the endpoints (av, bv) of a ledge in the order they are pushed
WedgeEnds(b, ledge) ==
    LET e == At(b.edges, Abs(ledge))
    IN  IF ledge >= 0 THEN <<e[2], e[1]>> ELSE <<e[1], e[2]>>

\* Wedges without the vertex at the centre
RECURSIVE WedgesWithoutCenter(_, _, _)
WedgesWithoutCenter(ctx, ledges, n) ==
    IF n = 0 THEN <<>>
    ELSE LET ends == WedgeEnds(ctx.b, ledges[n])
         IN  WedgesWithoutCenter(ctx, ledges, n - 1)
             \o <<MakeVertex(ctx, Point(ends[1], 1)),
                  MakeVertex(ctx, Point(ends[2], 1))>>

\* lines 295-418: the three vertices pushed per ledge, for ledges[1 .. n]
RECURSIVE Wedges(_, _, _)
Wedges(ctx, ledges, n) ==
    IF n = 0 THEN <<>>
    ELSE LET ends == WedgeEnds(ctx.b, ledges[n])
         IN  Wedges(ctx, ledges, n - 1)
             \o <<MakeVertex(ctx, Point(ends[1], 1)),
                  MakeVertex(ctx, Point(ends[2], 1)),
                  MakeVertex(ctx, ctx.center)>>

\* lines 303-312: sky_min and sky_max after the endpoints of ledges[1 .. n]
RECURSIVE SkyBounds(_, _, _, _)
SkyBounds(ctx, ledges, n, box) ==
    IF n = 0 THEN box
    ELSE LET ends == WedgeEnds(ctx.b, ledges[n])
             before == SkyBounds(ctx, ledges, n - 1, box)
             world(v) == [c \in 1 .. 3 |-> ctx.model.origin[c] + v[c]]
             a == world(ends[1])
             bb == world(ends[2])
         IN  [min |-> [c \in 1 .. 3 |-> Min(Min(before.min[c], a[c]), bb[c])],
              max |-> [c \in 1 .. 3 |-> Max(Max(before.max[c], a[c]), bb[c])]]

\* lines 219-418: the vertices of one face, pushed to verts or verts_sky
EmitFace(b, textures, tiles, acc, visit, entry) ==
    LET model == b.models[entry.model]
        face == b.faces[entry.face]
        tex_info == At(b.texture_info, face.texture_info)
        tex == At(b.textures, tex_info.texture)
    IN  IF SkipFace(tex) THEN acc
        ELSE
        LET is_sky == StartsWith(tex.name, <<"s", "k", "y">>)
            liquid == IsLiquidOrAnimated(tex.name)
            base_light == IF liquid THEN 127 ELSE face.base_light
            type_light == IF liquid THEN 255 ELSE face.type_light
            ledges == FaceLedges(b, face)
            light == IF base_light = 255 THEN 0 ELSE face.base_light
            lit == type_light # 255 /\ face.light_map # -1
            extent == LightExtent(b, face)
            tile == LightRect(tiles, face.light_map)
            ctx == [b |-> b, model |-> model, face |-> face,
                    tex_info |-> tex_info, tex |-> tex,
                    trect |-> textures[tex.id + 1],
                    center |-> Point(SumEnds(b, ledges, Len(ledges)), 2 * Len(ledges)),
                    light_s |-> IF lit THEN Floor(extent.min_s, 16) ELSE 0,
                    light_t |-> IF lit THEN Floor(extent.min_t, 16) ELSE 0,
                    t_offset |-> IF lit THEN <<tile.rect.x, tile.rect.y>> ELSE <<0, 0>>,
                    light |-> light, type_light |-> type_light, visit |-> visit]
            pushed == Wedges(ctx, ledges, Len(ledges))
            box == IF is_sky
                   THEN SkyBounds(ctx, ledges, Len(ledges),
                                  [min |-> acc.sky_min, max |-> acc.sky_max])
                   ELSE [min |-> acc.sky_min, max |-> acc.sky_max]
        IN  IF lit /\ ~tile.found THEN [acc EXCEPT !.panic = TRUE]
            ELSE [acc EXCEPT
                    !.verts = IF is_sky THEN @ ELSE @ \o pushed,
                    !.verts_sky = IF is_sky THEN @ \o pushed ELSE @,
                    !.sky_texture = IF is_sky THEN [some |-> TRUE, id |-> tex.id] ELSE @,
                    !.sky_min = box.min,
                    !.sky_max = box.max]

\* lines 211-420: geometry emission over order[1 .. n]
RECURSIVE Emit(_, _, _, _, _)
Emit(b, textures, tiles, order, n) ==
    IF n = 0
    THEN [panic |-> FALSE, verts |-> <<>>, verts_sky |-> <<>>,
          sky_texture |-> [some |-> FALSE, id |-> 0],
          sky_min |-> <<0, 0, 0>>, sky_max |-> <<0, 0, 0>>]
    ELSE Let(Emit(b, textures, tiles, order, n - 1), LAMBDA acc :
             IF acc.panic THEN acc
             ELSE EmitFace(b, textures, tiles, acc, n, order[n]))

\* QMap::gen_sky_box: two quads of two triangles each
GenSkyBox(textures, tex, min, max) ==
    LET t == textures[tex + 1]
        width == t.width \div 2
        corner(x, y, z) ==
            [position |-> Point(<<x, y, max[3] + z * 100>>, 1),
             tex |-> <<t.x + width * z, t.y>>,
             tex_info |-> <<0, 0, width, t.height>>,
             light_info |-> <<0, 0>>,
             light |-> 0, light_type |-> z, visit |-> 0]
        quad(z) == <<corner(min[1], min[2], z), corner(min[1], max[2], z),
                     corner(max[1], min[2], z), corner(min[1], max[2], z),
                     corner(max[1], max[2], z), corner(max[1], min[2], z)>>
    IN  quad(0) \o quad(1)

\* the QMap before QMap::new has run
NoBake ==
    [status |-> "none", textures |-> <<>>, t_list |-> <<>>, tiles |-> <<>>,
     light_map_data |-> <<>>, verts |-> <<>>, verts_sky |-> <<>>,
     sky_texture |-> [some |-> FALSE, id |-> 0],
     sky_min |-> <<0, 0, 0>>, sky_max |-> <<0, 0, 0>>, sky_box_verts |-> <<>>,
     buffer_count |-> 0, buffer_sky_count |-> 0, buffer_sky_box_count |-> 0]

\* QMap::new up to the uploads (lines 95-420 and 506-508, counts of 713-720):
\* status "panicked" when an unwrap or an index panics
QMapBake(b) ==
    Let(Sort(TextureList(b, Len(b.textures))), LAMBDA t_list :
    Let(PackTextures(b, t_list, 1, AtlasNew(ATLAS_SIZE, ATLAS_SIZE),
                     [i \in 1 .. Len(b.textures) |-> NoRect]), LAMBDA packed :
    Let(FaceOrder(b, Len(b.models)), LAMBDA order :
    Let(Sort(SizingPass(b, order, Len(order))), LAMBDA lights :
    IF packed.panic THEN [NoBake EXCEPT !.status = "panicked"]
    ELSE
    Let(PackLights(b, lights, 1, AtlasNewPadded(ATLAS_SIZE, ATLAS_SIZE, 1),
                   [i \in 0 .. ATLAS_SIZE * ATLAS_SIZE - 1 |-> 0], <<>>), LAMBDA lit :
    IF lit.panic THEN [NoBake EXCEPT !.status = "panicked"]
    ELSE
    Let(Emit(b, packed.textures, lit.tiles, order, Len(order)), LAMBDA geo :
    IF geo.panic THEN [NoBake EXCEPT !.status = "panicked"]
    ELSE
    LET sky_box_verts ==
            IF geo.sky_texture.some
            THEN GenSkyBox(packed.textures, geo.sky_texture.id,
                           <<geo.sky_min[1] - 2000, geo.sky_min[2] - 2000, geo.sky_min[3]>>,
                           <<geo.sky_max[1] + 2000, geo.sky_max[2] + 2000, geo.sky_max[3]>>)
            ELSE <<>>
    IN  [status |-> "baked",
         textures |-> packed.textures,
         t_list |-> t_list,
         tiles |-> lit.tiles,
         light_map_data |-> lit.light_map_data,
         verts |-> geo.verts,
         verts_sky |-> geo.verts_sky,
         sky_texture |-> geo.sky_texture,
         sky_min |-> geo.sky_min,
         sky_max |-> geo.sky_max,
         sky_box_verts |-> sky_box_verts,
         buffer_count |-> Len(geo.verts),
         buffer_sky_count |-> Len(geo.verts_sky),
         buffer_sky_box_count |-> Len(sky_box_verts)]))))))

-----------------------------------------------------------------------------
(* The levels handed to the baker: one square in the plane z = 0, cut into  *)
(* triangles, seen through a handful of textures.                            *)

LevelTextures ==
    << [id |-> 0, name |-> <<"w", "a", "l", "l">>, width |-> 2, height |-> 2],
       [id |-> 1, name |-> <<"s", "k", "y", "1">>, width |-> 2, height |-> 1],
       [id |-> 2, name |-> <<"t", "r", "i", "g", "g", "e", "r">>, width |-> 1, height |-> 1],
       [id |-> -1, name |-> <<>>, width |-> 0, height |-> 0],
       [id |-> 4, name |-> <<"*", "l", "a", "v", "a">>, width |-> 1, height |-> 2],
       [id |-> 5, name |-> <<"t", "r", "i", "g", "g", "e", "r", "2">>, width |-> 1, height |-> 1] >>

TexInfo(vector_s, dist_s, vector_t, dist_t, texture) ==
    [vector_s |-> vector_s, dist_s |-> dist_s,
     vector_t |-> vector_t, dist_t |-> dist_t, texture |-> texture]

\* one texture_info per texture, and a second one for "wall" that stretches s
LevelTextureInfo ==
    << TexInfo(<<1, 0, 0>>, 0, <<0, 1, 0>>, 0, 0),
       TexInfo(<<1, 0, 0>>, 0, <<0, 1, 0>>, 0, 1),
       TexInfo(<<1, 0, 0>>, 0, <<0, 1, 0>>, 0, 2),
       TexInfo(<<1, 0, 0>>, 0, <<0, 1, 0>>, 0, 3),
       TexInfo(<<1, 0, 0>>, 16, <<0, 1, 0>>, 0, 4),
       TexInfo(<<1, 0, 0>>, 0, <<0, 1, 0>>, 0, 5),
       TexInfo(<<2, 0, 0>>, 0, <<0, 1, 0>>, 0, 0) >>

\* edge 0 is never referenced; 1-4 run around the square, 5 is a diagonal
LevelEdges ==
    << <<<<0, 0, 0>>, <<0, 0, 0>>>>,
       <<<<16, 16, 0>>, <<32, 16, 0>>>>,
       <<<<32, 16, 0>>, <<32, 32, 0>>>>,
       <<<<32, 32, 0>>, <<16, 32, 0>>>>,
       <<<<16, 32, 0>>, <<16, 16, 0>>>>,
       <<<<32, 32, 0>>, <<16, 16, 0>>>> >>

\* the square, the triangle below the diagonal, the triangle above it with
\* the diagonal walked backwards
LevelLedges == <<1, 2, 3, 4, 1, 2, 5, -5, 3, 4>>

Square == [start |-> 0, end |-> 4]
LowerTriangle == [start |-> 4, end |-> 7]
UpperTriangle == [start |-> 7, end |-> 10]

\* the bytes of the lightmap lump, all different and none zero
LightMaps == [i \in 0 .. 29 |-> i + 1]

Face(texture_info, type_light, base_light, light_map, ledges) ==
    [texture_info |-> texture_info, type_light |-> type_light,
     base_light |-> base_light, light_map |-> light_map, ledges |-> ledges]

FaceChoices ==
    { Face(0, 0, 0, 0, Square),            \* lit wall
      Face(6, 0, 10, 8, LowerTriangle),    \* lit wall, stretched
      Face(0, 1, 255, 16, UpperTriangle),  \* lit wall, light style 1
      Face(1, 0, 0, -1, Square),           \* sky
      Face(2, 0, 0, 0, Square),            \* trigger
      Face(3, 0, 0, 8, LowerTriangle),     \* unused texture
      Face(4, 0, 40, 16, Square),          \* lava with a lightmap
      Face(0, 255, 0, -1, UpperTriangle),  \* fullbright, no lightmap
      Face(0, 255, 0, 8, Square),          \* fullbright with a lightmap offset
      Face(5, 0, 0, 0, LowerTriangle),     \* "trigger2" is not "trigger"
      Face(1, 0, 0, 16, UpperTriangle) }   \* sky with a lightmap

\* a level of these faces: one model, or a second model with its own origin
\* for all faces after the first
Level(faces, split) ==
    [light_maps |-> LightMaps,
     textures |-> LevelTextures,
     texture_info |-> LevelTextureInfo,
     edges |-> LevelEdges,
     ledges |-> LevelLedges,
     faces |-> faces,
     models |-> IF split /\ Len(faces) >= 2
                THEN << [origin |-> <<0, 0, 0>>, faces |-> [start |-> 0, end |-> 1]],
                        [origin |-> <<-64, 0, 64>>,
                         faces |-> [start |-> 1, end |-> Len(faces)]] >>
                ELSE << [origin |-> <<0, 0, 0>>,
                         faces |-> [start |-> 0, end |-> Len(faces)]] >>]

Levels ==
    {Level(faces, split) :
        faces \in UNION {[1 .. n -> FaceChoices] : n \in 1 .. MaxFaces},
        split \in BOOLEAN}

NoLevel == Level(<<>>, FALSE)

-----------------------------------------------------------------------------
(* SpecBaker: a level is loaded and baked *)

BakerIdle ==
    /\ bsp = NoLevel
    /\ baked = NoBake

\* QMap::new on the level at hand
Bake ==
    /\ baked.status = "none"
    /\ baked' = QMapBake(bsp)
    /\ UNCHANGED bsp

-----------------------------------------------------------------------------
(* Renderer: the device with its queue, draw, change_level and Drop *)

\* images of the swapchain, one framebuffer and one depth image each
FramebufferCount == 1
\* frames_in_flight: fences, command pools and command buffers of the ring
RingSize == FramebufferCount + 1

\* draw calls followed
MaxFrames == 3
\* change_level calls followed
MaxLevelLoads == 1
\* swapchains built after the first one
MaxSwapchains == 1
\* display_size handed to draw
DisplaySizes == {<<640, 480>>, <<800, 600>>}

\* a device object: a buffer, an image, a framebuffer, ...; gen tells the
\* level or swapchain it was made for
Res(kind, gen, index) == [kind |-> kind, gen |-> gen, index |-> index]

NoRes == Res("none", 0, 0)

\* QMap: the three vertex buffers and the two textures of level gen
LevelResources(gen) ==
    {Res(kind, gen, 0) :
        kind \in {"buffer", "buffer_sky", "buffer_sky_box", "texture", "texture_light"}}

\* make_swapchain: framebuffers, frame image views and depth images of swapchain gen
SwapResources(gen) ==
    {Res(kind, gen, i) :
        kind \in {"framebuffer", "image_view", "depth"}, i \in 0 .. FramebufferCount - 1}

\* texture_colour_map and texture_palette_map
MapResources == {Res("texture_colour_map", 0, 0), Res("texture_palette_map", 0, 0)}

\* Submit that hands no fence to the queue
SubmitWithoutFence(d, frame, fence, refs) ==
    [d EXCEPT !.inflight = @ \cup {[frame |-> frame, fence |-> -1, refs |-> refs]}]

\* queue.submit: the command buffer is pending from now on; fence is the
\* slot of the fence to signal, -1 for none
Submit(d, frame, fence, refs) ==
    [d EXCEPT !.inflight = @ \cup {[frame |-> frame, fence |-> fence, refs |-> refs]}]

\* WaitIdle that returns at once
WaitIdleNoWait(d) == d

\* device.wait_idle / queue.wait_idle: returns when every pending command
\* buffer has completed, which signals their fences
WaitIdle(d) ==
    [d EXCEPT !.inflight = {},
              !.fences = [slot \in DOMAIN d.fences |->
                            d.fences[slot] \/ \E s \in d.inflight : s.fence = slot],
              !.drained = @ \/ \E s \in d.inflight : s.fence # -1]

\* WaitForFence that returns at once
WaitForFenceNoWait(d, slot) == [hung |-> FALSE, dev |-> d]

\* device.wait_for_fence(fence, !0): returns when the fence is signalled;
\* hung when it is neither signalled nor about to be
WaitForFence(d, slot) ==
    IF d.fences[slot] THEN [hung |-> FALSE, dev |-> d]
    ELSE IF ~\E s \in d.inflight : s.fence = slot THEN [hung |-> TRUE, dev |-> d]
    ELSE [hung |-> FALSE,
          dev |-> [d EXCEPT !.inflight = {s \in @ : s.fence # slot},
                            !.fences[slot] = TRUE]]

\* device.reset_fence
ResetFence(d, slot) == [d EXCEPT !.fences[slot] = FALSE]

\* creation of device objects
Create(d, resources) == [d EXCEPT !.live = @ \cup resources]

\* BufferBundle::destroy, ImageBundle::destroy, DepthImage::destroy,
\* destroy_framebuffer, destroy_image_view: the objects are gone and their
\* allocations freed; hazard records a destroy of an object that a pending
\* command buffer refers to, refreed a destroy of an object that is gone
\* already (its allocation is freed a second time)
Destroy(d, resources) ==
    [d EXCEPT !.live = @ \ resources,
              !.hazard = @ \/ \E s \in d.inflight : s.refs \cap resources # {},
              !.refreed = @ \/ resources \ d.live # {}]

\* one encoder command
Command(op, pipeline, buffer, count) ==
    [op |-> op, pipeline |-> pipeline, buffer |-> buffer, count |-> count]

\* QMapDraw that draws the level buffer before the two sky buffers
QMapDrawLevelFirst(self) ==
    LET time_offset == self.time_offset + 1
    IN  [self |-> [self EXCEPT !.time_offset = time_offset],
         commands |->
           << Command("push_graphics_constants", "", NoRes, time_offset),
              Command("bind_graphics_pipeline", "pipeline", NoRes, 0),
              Command("bind_vertex_buffers", "", Res("buffer", self.gen, 0), 0),
              Command("draw", "", NoRes, self.buffer_count),
              Command("bind_graphics_pipeline", "sky_pipeline", NoRes, 0),
              Command("bind_vertex_buffers", "", Res("buffer_sky_box", self.gen, 0), 0),
              Command("draw", "", NoRes, self.buffer_sky_box_count),
              Command("bind_graphics_pipeline", "depth_pipeline", NoRes, 0),
              Command("bind_vertex_buffers", "", Res("buffer_sky", self.gen, 0), 0),
              Command("draw", "", NoRes, self.buffer_sky_count) >>]

\* QMap::draw: the commands recorded into the encoder, and the QMap afterwards
QMapDraw(self) ==
    LET time_offset == self.time_offset + 1
    IN  [self |-> [self EXCEPT !.time_offset = time_offset],
         commands |->
           << Command("push_graphics_constants", "", NoRes, time_offset),
              Command("bind_graphics_pipeline", "sky_pipeline", NoRes, 0),
              Command("bind_vertex_buffers", "", Res("buffer_sky_box", self.gen, 0), 0),
              Command("draw", "", NoRes, self.buffer_sky_box_count),
              Command("bind_graphics_pipeline", "depth_pipeline", NoRes, 0),
              Command("bind_vertex_buffers", "", Res("buffer_sky", self.gen, 0), 0),
              Command("draw", "", NoRes, self.buffer_sky_count),
              Command("bind_graphics_pipeline", "pipeline", NoRes, 0),
              Command("bind_vertex_buffers", "", Res("buffer", self.gen, 0), 0),
              Command("draw", "", NoRes, self.buffer_count) >>]

\* one staged upload of QMap::new: staging and target objects are created,
\* the copy is submitted, the queue is waited for, the staging objects go
StagedUpload(d, staging, targets) ==
    Destroy(WaitIdle(Submit(Create(d, staging \cup targets), -1, -1,
                            staging \cup targets)),
            staging)

\* QMap::new after the bake (lines 422-711): the uploads of the three vertex
\* buffers, then of both textures
QMapUpload(d, gen) ==
    LET d1 == StagedUpload(d, {Res("staging_buffer", gen, 0)}, {Res("buffer", gen, 0)})
        d2 == StagedUpload(d1, {Res("staging_buffer", gen, 1)}, {Res("buffer_sky", gen, 0)})
        d3 == StagedUpload(d2, {Res("staging_buffer", gen, 2)},
                           {Res("buffer_sky_box", gen, 0)})
    IN  StagedUpload(d3, {Res("staging_buffer_l", gen, 0), Res("staging_buffer", gen, 3)},
                     {Res("texture_light", gen, 0), Res("texture", gen, 0)})

\* a level whose first texture is wider than the atlas: atlas.find returns
\* None for it and the unwrap at qmap.rs:123 panics
OversizeLevel ==
    [Level(<<Face(0, 0, 0, 0, Square)>>, FALSE) EXCEPT
        !.textures[1].width = ATLAS_SIZE + 1]

\* the levels the renderer is given: a wall and a sky triangle in two
\* models, a single wall triangle, and the level that does not fit
RenderLevels ==
    { Level(<<Face(0, 0, 0, 0, Square), Face(1, 0, 0, -1, UpperTriangle)>>, TRUE),
      Level(<<Face(6, 0, 10, 8, LowerTriangle)>>, FALSE),
      OversizeLevel }

\* the bake of each of these levels
BakedLevels == [b \in RenderLevels |-> QMapBake(b)]

\* the QMap built from level b as generation gen
QMapOf(b, gen) ==
    Let(BakedLevels[b], LAMBDA q :
        [gen |-> gen, status |-> q.status,
         buffer_count |-> q.buffer_count,
         buffer_sky_count |-> q.buffer_sky_count,
         buffer_sky_box_count |-> q.buffer_sky_box_count,
         time_offset |-> 0])

\* RecreateSwapchain that looks at the display size alone
RecreateOnResizeOnly(self, d, display_size) ==
    IF self.display_size # display_size
    THEN [self |-> [self EXCEPT !.recreate_swapchain = FALSE,
                                !.display_size = display_size,
                                !.swap_chain = @ + 1],
          dev |-> Create(Destroy(WaitIdle(d), SwapResources(self.swap_chain)),
                         SwapResources(self.swap_chain + 1))]
    ELSE [self |-> self, dev |-> d]

\* Renderer::draw, lines 1009-1035: on a new display size, or when
\* recreate_swapchain is set, the swapchain and what hangs on it are rebuilt
RecreateSwapchain(self, d, display_size) ==
    IF self.display_size # display_size \/ self.recreate_swapchain
    THEN [self |-> [self EXCEPT !.recreate_swapchain = FALSE,
                                !.display_size = display_size,
                                !.swap_chain = @ + 1],
          dev |-> Create(Destroy(WaitIdle(d), SwapResources(self.swap_chain)),
                         SwapResources(self.swap_chain + 1))]
    ELSE [self |-> self, dev |-> d]

\* the objects the command buffer of a frame refers to
FrameRefs(self, swap_image) ==
    LevelResources(self.level.gen)
    \cup {Res(kind, self.swap_chain, swap_image) :
             kind \in {"framebuffer", "image_view", "depth"}}

\* Renderer::draw.  acquired: the image index of acquire_image, -1 for Err;
\* present_ok: present returned Ok.  by_flag (not a field of the program)
\* records that the call found recreate_swapchain set
RendererDraw(self, d, display_size, acquired, present_ok) ==
    Let(RecreateSwapchain(self, d, display_size), LAMBDA r :
    LET by_flag == self.recreate_swapchain
        frame_idx == r.self.frame % RingSize
    IN  IF acquired = -1
        THEN [self |-> [r.self EXCEPT !.recreate_swapchain = TRUE,
                                      !.by_flag = by_flag],
              dev |-> r.dev]
        ELSE
        Let(WaitForFence(r.dev, frame_idx), LAMBDA waited :
        Let(QMapDraw(r.self.level), LAMBDA drawn :
        IF waited.hung
        THEN [self |-> [r.self EXCEPT !.status = "hung"], dev |-> r.dev]
        ELSE [self |-> [r.self EXCEPT
                          !.level = drawn.self,
                          !.cmd_buffers[frame_idx] = drawn.commands,
                          !.recreate_swapchain = IF present_ok THEN @ ELSE TRUE,
                          !.frame = @ + 1,
                          !.by_flag = by_flag],
              dev |-> Submit(ResetFence(waited.dev, frame_idx), r.self.frame, frame_idx,
                             FrameRefs(r.self, acquired))])))

\* Renderer::change_level
RendererChangeLevel(self, d, b) ==
    Let(QMapOf(b, self.level.gen + 1), LAMBDA level :
    LET d1 == Destroy(WaitIdle(d), LevelResources(self.level.gen))
    IN  IF level.status = "panicked"
        THEN [self |-> [self EXCEPT !.status = "panicked"], dev |-> d1]
        ELSE [self |-> [self EXCEPT !.level = level],
              dev |-> WaitIdle(QMapUpload(d1, level.gen))])

\* Drop for Renderer
RendererDrop(self, d) ==
    [self |-> [self EXCEPT !.status = "dropped"],
     dev |-> Destroy(Destroy(Destroy(WaitIdle(d), LevelResources(self.level.gen)),
                             MapResources),
                     SwapResources(self.swap_chain))]

NoQMap ==
    [gen |-> 0, status |-> "none", buffer_count |-> 0, buffer_sky_count |-> 0,
     buffer_sky_box_count |-> 0, time_offset |-> 0]

\* Renderer::new: the state it returns for level b and window size
RendererNew(b, display_size) ==
    [status |-> "running",
     display_size |-> display_size,
     recreate_swapchain |-> FALSE,
     frame |-> 0,
     level |-> QMapOf(b, 0),
     swap_chain |-> 0,
     cmd_buffers |-> [slot \in 0 .. RingSize - 1 |-> <<>>],
     by_flag |-> FALSE]

\* the device after Renderer::new: every fence was created signalled
DeviceAfterNew ==
    [live |-> LevelResources(0) \cup SwapResources(0) \cup MapResources,
     inflight |-> {},
     fences |-> [slot \in 0 .. RingSize - 1 |-> TRUE],
     hazard |-> FALSE,
     refreed |-> FALSE,
     drained |-> FALSE]

-----------------------------------------------------------------------------
(* SpecRender: draw, change_level and Drop on one Renderer, while the       *)
(* device completes the submitted command buffers on its own                *)

RenderIdle ==
    /\ rend = [status |-> "none", display_size |-> <<0, 0>>,
               recreate_swapchain |-> FALSE, frame |-> 0, level |-> NoQMap,
               swap_chain |-> 0, cmd_buffers |-> <<>>, by_flag |-> FALSE]
    /\ gfxDevice = [live |-> {}, inflight |-> {}, fences |-> <<>>,
              hazard |-> FALSE, refreed |-> FALSE, drained |-> FALSE]

Draw(display_size, acquired, present_ok) ==
    /\ rend.status = "running"
    /\ rend.frame < MaxFrames
    /\ (display_size # rend.display_size \/ rend.recreate_swapchain)
          => rend.swap_chain < MaxSwapchains
    /\ \E r \in {RendererDraw(rend, gfxDevice, display_size, acquired, present_ok)} :
          /\ rend' = r.self
          /\ gfxDevice' = r.dev

ChangeLevel(b) ==
    /\ rend.status = "running"
    /\ rend.level.gen < MaxLevelLoads
    /\ \E r \in {RendererChangeLevel(rend, gfxDevice, b)} :
          /\ rend' = r.self
          /\ gfxDevice' = r.dev

\* Drop runs when the owner lets go of a running Renderer, and while a panic
\* inside change_level unwinds through the owner (main.rs:135); a build
\* that aborts on panic stays in "panicked"
Drop ==
    /\ rend.status \in {"running", "panicked"}
    /\ \E r \in {RendererDrop(rend, gfxDevice)} :
          /\ rend' = r.self
          /\ gfxDevice' = r.dev

\* the device finishes a pending command buffer and signals its fence
DeviceComplete(s) ==
    /\ s \in gfxDevice.inflight
    /\ gfxDevice' = [gfxDevice EXCEPT !.inflight = @ \ {s},
                          !.fences = [slot \in DOMAIN @ |-> @[slot] \/ s.fence = slot]]
    /\ UNCHANGED rend

-----------------------------------------------------------------------------
(* The specifications *)

InitChunk ==
    /\ \E g \in Granularities : ca = ChunkNew(TestChunks * CHUNK_SIZE, g)
    /\ live = <<>>
    /\ caPanicked = FALSE
    /\ GpuIdle
    /\ AtlasIdle
    /\ BakerIdle
    /\ RenderIdle

NextChunk ==
    \/ \E ty \in Types, size \in TestSizes, align \in Alignments :
          CaAllocate(ty, size, align) /\ UNCHANGED <<gpuVars, atlasVars, bakerVars, renderVars>>
    \/ \E i \in 1 .. MaxLive : CaFree(i) /\ UNCHANGED <<gpuVars, atlasVars, bakerVars, renderVars>>

SpecChunk == InitChunk /\ [][NextChunk]_vars

InitGPU ==
    /\ \E g \in GpuGranularities : gpu = GPUNew(g, DeviceMemoryTypes)
    /\ allocs = {}
    /\ device = DeviceNew(MaxNative)
    /\ gpuStatus = "running"
    /\ lastFree = NoFree
    /\ ChunkIdle
    /\ AtlasIdle
    /\ BakerIdle
    /\ RenderIdle

\* requests of any memory type and properties, each filling a region
NextGPU ==
    \/ \E ty \in Types, size \in GpuSizes, type_mask \in TypeMasks,
          properties \in PropertySets :
          GAllocate(ty, size, 256, type_mask, properties)
          /\ UNCHANGED <<chunkVars, atlasVars, bakerVars, renderVars>>
    \/ \E a \in allocs : GFree(a) /\ UNCHANGED <<chunkVars, atlasVars, bakerVars, renderVars>>
    \/ GDestroy /\ UNCHANGED <<chunkVars, atlasVars, bakerVars, renderVars>>

SpecGPU == InitGPU /\ [][NextGPU]_vars

\* device-local requests that every memory type serves: one GPUMemory, many regions
NextMemory ==
    \/ \E ty \in Types, size \in MemorySizes, align \in Alignments :
          GAllocate(ty, size, align, 3, {"DEVICE_LOCAL"})
          /\ UNCHANGED <<chunkVars, atlasVars, bakerVars, renderVars>>
    \/ \E a \in allocs : GFree(a) /\ UNCHANGED <<chunkVars, atlasVars, bakerVars, renderVars>>
    \/ GDestroy /\ UNCHANGED <<chunkVars, atlasVars, bakerVars, renderVars>>

InitMemory ==
    /\ \E g \in GpuGranularities : gpu = GPUNew(g, DeviceMemoryTypes)
    /\ allocs = {}
    /\ device = DeviceNew(MemoryNative)
    /\ gpuStatus = "running"
    /\ lastFree = NoFree
    /\ ChunkIdle
    /\ AtlasIdle
    /\ BakerIdle
    /\ RenderIdle

SpecMemory == InitMemory /\ [][NextMemory]_vars

InitAtlas ==
    /\ \E width \in AtlasSizes, height \in AtlasSizes :
          /\ bounds = [width |-> width, height |-> height]
          /\ \/ atlas = AtlasNew(width, height)
             \/ \E padding \in Paddings : atlas = AtlasNewPadded(width, height, padding)
    /\ placed = <<>>
    /\ lastFind = NoFind
    /\ ChunkIdle
    /\ GpuIdle
    /\ BakerIdle
    /\ RenderIdle

\* small requests, and requests as large as the atlas or one pixel larger
NextAtlas ==
    \/ \E w \in 1 .. MaxRequest, h \in 1 .. MaxRequest :
          Find(w, h) /\ UNCHANGED <<chunkVars, gpuVars, bakerVars, renderVars>>
    \/ \E w \in {bounds.width, bounds.width + 1},
          h \in {bounds.height, bounds.height + 1} :
          Find(w, h) /\ UNCHANGED <<chunkVars, gpuVars, bakerVars, renderVars>>

SpecAtlas == InitAtlas /\ [][NextAtlas]_vars

InitBaker ==
    /\ bsp \in Levels
    /\ baked = NoBake
    /\ ChunkIdle
    /\ GpuIdle
    /\ AtlasIdle
    /\ RenderIdle

NextBaker == Bake /\ UNCHANGED <<chunkVars, gpuVars, atlasVars, renderVars>>

SpecBaker == InitBaker /\ [][NextBaker]_vars

InitRender ==
    /\ \E b \in RenderLevels, display_size \in DisplaySizes :
          /\ BakedLevels[b].status = "baked"
          /\ rend = RendererNew(b, display_size)
    /\ gfxDevice = DeviceAfterNew
    /\ ChunkIdle
    /\ GpuIdle
    /\ AtlasIdle
    /\ BakerIdle

NextRender ==
    \/ \E display_size \in DisplaySizes, acquired \in -1 .. FramebufferCount - 1,
          present_ok \in BOOLEAN :
          Draw(display_size, acquired, present_ok)
          /\ UNCHANGED <<chunkVars, gpuVars, atlasVars, bakerVars>>
    \/ \E b \in RenderLevels :
          ChangeLevel(b) /\ UNCHANGED <<chunkVars, gpuVars, atlasVars, bakerVars>>
    \/ Drop /\ UNCHANGED <<chunkVars, gpuVars, atlasVars, bakerVars>>
    \/ \E s \in gfxDevice.inflight :
          DeviceComplete(s) /\ UNCHANGED <<chunkVars, gpuVars, atlasVars, bakerVars>>

SpecRender == InitRender /\ [][NextRender]_vars

\* the device finishes the command buffer that will signal the fence of slot
CompleteSlot(slot) ==
    /\ \E s \in gfxDevice.inflight : s.fence = slot /\ DeviceComplete(s)
    /\ UNCHANGED <<chunkVars, gpuVars, atlasVars, bakerVars>>

\* SpecRender on a device that completes every submitted command buffer in
\* the end
SpecRenderFair ==
    SpecRender /\ \A slot \in -1 .. RingSize - 1 : WF_vars(CompleteSlot(slot))

-----------------------------------------------------------------------------
(* Properties of ChunkAlloc, checked under SpecChunk *)

\* the byte ranges a and b (start inclusive, end exclusive) share a byte
RangesOverlap(a, b) == a.start < b.end /\ b.start < a.end

\* a chunk that was claimed and freed again: its unit is stamped, its bit is clear
FreedChunks ==
    {i \in DOMAIN ca.used :
        /\ ~ca.used[i]
        /\ (i * CHUNK_SIZE) \div ca.buffer_image_granularity \in DOMAIN ca.used_types
        /\ ca.used_types[(i * CHUNK_SIZE) \div ca.buffer_image_granularity] # "None"}

\* C1: at every point of any sequence of allocate and free calls on one
\* ChunkAlloc, the byte ranges of the live allocations are pairwise disjoint.
C1_LiveRangesDisjoint ==
    \A i, j \in DOMAIN live :
        i # j => ~RangesOverlap(live[i].range, live[j].range)

\* three allocations are live next to a chunk that was freed before
C1_Witness ==
    /\ Len(live) >= 3
    /\ FreedChunks # {}
    /\ ~caPanicked

\* the granularity units (first, last) that the bytes of range touch
UnitsOf(range, gran) ==
    [first |-> range.start \div gran, last |-> (range.end - 1) \div gran]

SharesUnit(a, b, gran) ==
    LET ua == UnitsOf(a, gran)
        ub == UnitsOf(b, gran)
    IN  Max(ua.first, ub.first) <= Min(ua.last, ub.last)

\* C7: for every buffer_image_granularity, no granularity unit holds bytes of
\* a live Buffer allocation and bytes of a live Image allocation at once.
C7_NoSharedGranularityUnit ==
    \A i, j \in DOMAIN live :
        (live[i].ty = "Buffer" /\ live[j].ty = "Image")
            => ~SharesUnit(live[i].range, live[j].range, ca.buffer_image_granularity)

\* the type tag of the granularity unit that holds chunk idx; "None" when the
\* unit lies past the tag array
TagOfChunk(self, idx) ==
    LET unit == (idx * CHUNK_SIZE) \div self.buffer_image_granularity
    IN  IF unit \in DOMAIN self.used_types THEN self.used_types[unit] ELSE "None"

\* C20: whenever allocate(kind, size, align) returns Some(range), at the moment
\* of the call the tag of the unit of the first allocated chunk and the tag of
\* the unit of chunk start_chunk + chunk_count were each None or Some(kind).
C20_BoundaryTagsCompatible ==
    [][ \A ty \in Types, size \in TestSizes, align \in Alignments :
           ( /\ CaAllocate(ty, size, align)
             /\ Len(live') > Len(live) )
           => LET start_chunk == live'[Len(live')].range.start \div CHUNK_SIZE
                  chunk_count == (size + (CHUNK_SIZE - 1)) \div CHUNK_SIZE
              IN  /\ ~TypeConflict(TagOfChunk(ca, start_chunk), ty)
                  /\ ~TypeConflict(TagOfChunk(ca, start_chunk + chunk_count), ty) ]_vars

\* the chunks that hold a byte of range
ChunksOf(range) ==
    {c \in 0 .. TestChunks - 1 :
        c * CHUNK_SIZE < range.end /\ (c + 1) * CHUNK_SIZE > range.start}

\* free right after a successful allocate gives back the bitset of before
FreeUndoesAllocate ==
    \A ty \in Types, size \in TestSizes, align \in Alignments :
       Let(ChunkAllocate(ca, ty, size, align), LAMBDA r :
           r.kind = "Some" =>
              /\ ChunkFree(r.self, r.range).used = ca.used
              /\ ChunkFree(r.self, r.range).used_types = r.self.used_types)

\* C21: free(r), for a range r that allocate returned, clears exactly the
\* occupancy bits of the chunks that the allocate call set, so that a free
\* right after the allocate restores the bitset; every other bit and the
\* whole used_types array stay as they are.
C21_FreeClearsExactlyClaimedBits ==
    /\ [](~caPanicked => FreeUndoesAllocate)
    /\ [][ \A i \in 1 .. MaxLive :
              CaFree(i) =>
                 /\ ca'.used_types = ca.used_types
                 /\ \A c \in ChunksOf(live[i].range) : ca.used[c] /\ ~ca'.used[c]
                 /\ \A c \in DOMAIN ca.used \ ChunksOf(live[i].range) :
                       ca'.used[c] = ca.used[c] ]_vars

\* an allocation was freed while two others stay live, one of them ending
\* inside a chunk
C21_Witness ==
    /\ FreedChunks # {}
    /\ Len(live) = 2
    /\ \E i \in DOMAIN live : live[i].range.end % CHUNK_SIZE # 0
    /\ \E c \in DOMAIN ca.used : ca.used[c]
    /\ ~caPanicked

\* C27: from every reachable state and for every granularity, a call
\* allocate(kind, size, align) with an alignment that divides the chunk size
\* touches no occupancy bit and no type tag outside the arrays, and a range
\* it returns starts at a multiple of align and of the chunk size, is size
\* bytes long and ends inside the region.
C27_AllocateStaysInBounds ==
    [][ \A ty \in Types, size \in TestSizes, align \in Alignments :
           (CaAllocate(ty, size, align) /\ CHUNK_SIZE % align = 0) =>
              /\ ~caPanicked'
              /\ Len(live') > Len(live) =>
                    LET range == live'[Len(live')].range
                    IN  /\ range.start >= 0
                        /\ range.start % align = 0
                        /\ range.start % CHUNK_SIZE = 0
                        /\ range.end = range.start + size
                        /\ range.end <= TestChunks * CHUNK_SIZE ]_vars

\* a new allocator of the size and granularity of the one under test
FreshChunkAlloc == ChunkNew(TestChunks * CHUNK_SIZE, ca.buffer_image_granularity)

\* C28: once every allocation has been freed, allocate returns Some for a
\* request (kind, size, align) exactly when it returns Some for it on a new
\* allocator of the same size and granularity.
C28_EmptiedLikeFresh ==
    (live = <<>> /\ ~caPanicked) =>
       \A ty \in Types, size \in TestSizes, align \in Alignments :
          ChunkAllocate(ca, ty, size, align).kind = "Some"
             <=> ChunkAllocate(FreshChunkAlloc, ty, size, align).kind = "Some"

-----------------------------------------------------------------------------
(* Properties of GPUMemory, checked under SpecMemory *)

\* this step is GPUAlloc::allocate called with a request the allocator accepts
\* (positive size, alignment dividing the chunk size)
AllocateStep(ty, size, align, type_mask, properties) ==
    /\ size > 0
    /\ align > 0 /\ CHUNK_SIZE % align = 0
    /\ GAllocate(ty, size, align, type_mask, properties)

\* the step obtained a native memory object from the device
NewRegionStep == device'.allocated > device.allocated

\* C2: after free(r) of a live range r of kind k, an immediately following
\* allocate(k, s, align) with 0 < s <= length of r, going to the same memory
\* entry, is served by an existing region: no region is created.
C2_ReuseAfterFree ==
    [][ \A ty \in Types, size \in MemorySizes \cup GpuSizes, align \in Alignments,
           type_mask \in TypeMasks, properties \in PropertySets :
           ( /\ lastFree.valid
             /\ ty = lastFree.ty
             /\ size <= lastFree.len
             /\ FirstCompatibleMemory(gpu, type_mask, properties) = lastFree.owner + 1
             /\ AllocateStep(ty, size, align, type_mask, properties) )
           => (~NewRegionStep /\ gpuStatus' = "running") ]_vars

\* C6: when GPUMemory::allocate creates a fresh region, the allocation inside
\* it succeeds for every request with 0 < size <= REGION_SIZE.
C6_FreshRegionServes ==
    [][ \A ty \in Types, size \in MemorySizes \cup GpuSizes, align \in Alignments,
           type_mask \in TypeMasks, properties \in PropertySets :
           ( /\ AllocateStep(ty, size, align, type_mask, properties)
             /\ NewRegionStep
             /\ size <= REGION_SIZE )
           => gpuStatus' = "running" ]_vars

-----------------------------------------------------------------------------
(* Properties of GPUAlloc, checked under SpecGPU *)

\* region r of memory entry m serves the request as the allocator stands
CanServe(m, r, ty, size, align) ==
    ChunkAllocate(gpu.memory[m].regions[r].alloc, ty, size, align).kind = "Some"

\* C8: a new region is allocated from the device only if no existing region
\* of any memory entry compatible with the request can serve it.
C8_NewRegionOnlyWhenNoneServes ==
    [][ \A ty \in Types, size \in MemorySizes \cup GpuSizes, align \in Alignments,
           type_mask \in TypeMasks, properties \in PropertySets :
           ( /\ AllocateStep(ty, size, align, type_mask, properties)
             /\ NewRegionStep )
           => \A m \in DOMAIN gpu.memory :
                 Compatible(type_mask, gpu.memory[m].type_id, gpu.memory[m].ty, properties)
                 => \A r \in DOMAIN gpu.memory[m].regions :
                       ~CanServe(m, r, ty, size, align) ]_vars

-----------------------------------------------------------------------------
(* Properties of TextureAtlas, checked under SpecAtlas *)

\* r grown by padding on every side
Inflate(r, padding) ==
    Rect(r.x - padding, r.y - padding, r.width + 2 * padding, r.height + 2 * padding)

RectsOverlap(a, b) ==
    /\ a.x < b.x + b.width /\ b.x < a.x + a.width
    /\ a.y < b.y + b.height /\ b.y < a.y + a.height

\* inner lies inside outer
RectInside(inner, outer) ==
    /\ inner.x >= outer.x /\ inner.x + inner.width <= outer.x + outer.width
    /\ inner.y >= outer.y /\ inner.y + inner.height <= outer.y + outer.height

AtlasRect == Rect(0, 0, bounds.width, bounds.height)

\* the placed rectangles with their padding
Inflated == [i \in DOMAIN placed |-> Inflate(placed[i], atlas.padding)]

\* C3: the padding-inflated rectangles of all successful find calls are
\* pairwise disjoint and lie inside the atlas.
C3_PlacedDisjointInBounds ==
    /\ \A i \in DOMAIN placed : RectInside(Inflated[i], AtlasRect)
    /\ \A i, j \in DOMAIN placed : i # j => ~RectsOverlap(Inflated[i], Inflated[j])

\* three padded rectangles were placed
C3_Witness ==
    /\ Len(placed) >= 3
    /\ atlas.padding = 1

\* the pixels of r
Cells(r) ==
    {<<x, y>> : x \in r.x .. r.x + r.width - 1, y \in r.y .. r.y + r.height - 1}

\* C4: the free rectangles do not overlap one another nor any placed
\* (padding-inflated) rectangle, and free and placed rectangles together
\* cover exactly the atlas.
C4_FreeAndPlacedPartitionAtlas ==
    /\ \A i, j \in DOMAIN atlas.free_rects :
          i # j => ~RectsOverlap(atlas.free_rects[i], atlas.free_rects[j])
    /\ \A i \in DOMAIN atlas.free_rects : \A j \in DOMAIN placed :
          ~RectsOverlap(atlas.free_rects[i], Inflated[j])
    /\ UNION ({Cells(atlas.free_rects[i]) : i \in DOMAIN atlas.free_rects}
              \cup {Cells(Inflated[j]) : j \in DOMAIN placed})
          = Cells(AtlasRect)

\* three rectangles were placed and both kinds of leftover strips are free
C4_Witness ==
    /\ Len(placed) >= 3
    /\ Len(atlas.free_rects) >= 3

\* C10: a successful find(w, h) returns a w x h rectangle at the chosen free
\* rectangle's origin plus padding, and the padded rectangle lies inside the
\* chosen free rectangle.
C10_ReturnedRectDeflated ==
    lastFind.found =>
        /\ lastFind.rect.width = lastFind.w
        /\ lastFind.rect.height = lastFind.h
        /\ lastFind.rect.x = lastFind.chosen.x + atlas.padding
        /\ lastFind.rect.y = lastFind.chosen.y + atlas.padding
        /\ RectInside(Inflate(lastFind.rect, atlas.padding), lastFind.chosen)

\* a padded find succeeded in a free rectangle left over by an earlier split
C10_Witness ==
    /\ lastFind.found
    /\ atlas.padding = 1
    /\ lastFind.chosen.x > 0
    /\ lastFind.w # lastFind.h

\* some free rectangle holds a w x h request together with its padding
SomeRectFits(self, w, h) ==
    \E i \in DOMAIN self.free_rects :
        /\ self.free_rects[i].width >= w + 2 * self.padding
        /\ self.free_rects[i].height >= h + 2 * self.padding

\* C11: find(w, h) returns None exactly when no single free rectangle has
\* width >= w + 2*padding and height >= h + 2*padding, and a call that
\* returns None leaves free_rects unchanged; a request larger than the atlas
\* in either dimension returns None, and on a 16x16 atlas without padding
\* find(4,4) followed by find(16,16) returns None for the second call.
C11_NoneIffNothingFits ==
    /\ ~AtlasFind(AtlasFind(AtlasNew(16, 16), 4, 4).self, 16, 16).found
    /\ [][ \A w \in 1 .. MaxAtlas + 2, h \in 1 .. MaxAtlas + 2 :
              (lastFind'.w = w /\ lastFind'.h = h /\ Find(w, h)) =>
                 /\ lastFind'.found <=> SomeRectFits(atlas, w, h)
                 /\ ~lastFind'.found => atlas' = atlas
                 /\ (w > bounds.width \/ h > bounds.height) => ~lastFind'.found ]_vars

\* a request for the whole atlas was turned down after an earlier find had
\* split the atlas
C11_Witness ==
    /\ ~lastFind.found
    /\ lastFind.w = bounds.width /\ lastFind.h = bounds.height
    /\ atlas.padding = 0
    /\ Len(placed) >= 1
    /\ Len(atlas.free_rects) >= 2

-----------------------------------------------------------------------------
(* Properties of the baker, checked under SpecBaker *)

\* the faces in the order the baker visits them
Visits == FaceOrder(bsp, Len(bsp.models))

VisitFace(k) == bsp.faces[Visits[k].face]

VisitModel(k) == bsp.models[Visits[k].model]

VisitTexture(k) ==
    At(bsp.textures, At(bsp.texture_info, VisitFace(k).texture_info).texture)

\* the vertices a stream holds for the k-th face visited
VerticesOf(stream, k) == SelectSeq(stream, LAMBDA v : v.visit = k)

\* the lightmap tiles made for the k-th face visited
TilesOf(k) == {i \in DOMAIN baked.tiles : baked.tiles[i].visit = k}

\* C12: once the lightmap tiles (with distinct light_map offsets) are packed
\* and copied, for every tile of size w x h at (ox, oy) and every x in
\* [-1, w], y in [-1, h] the atlas pixel (ox+x, oy+y) is the source byte at
\* (clamp(x, 0, w-1), clamp(y, 0, h-1)); no tile wrote over another one.
C12_LightTilesCopiedWithBorder ==
    ( /\ baked.status = "baked"
      /\ \A i, j \in DOMAIN baked.tiles :
            i # j => baked.tiles[i].idx # baked.tiles[j].idx )
    => \A i \in DOMAIN baked.tiles :
          LET tile == baked.tiles[i]
              w == tile.width
              h == tile.height
          IN  \A x \in -1 .. w, y \in -1 .. h :
                 LET cx == IF x < 0 THEN 0 ELSE IF x > w - 1 THEN w - 1 ELSE x
                     cy == IF y < 0 THEN 0 ELSE IF y > h - 1 THEN h - 1 ELSE y
                 IN  baked.light_map_data[(tile.rect.x + x)
                                          + (tile.rect.y + y) * ATLAS_SIZE]
                        = bsp.light_maps[tile.idx + cx + cy * w]

\* two tiles of different sizes were copied
C12_Witness ==
    /\ baked.status = "baked"
    /\ Len(baked.tiles) >= 2
    /\ baked.tiles[1].idx # baked.tiles[2].idx
    /\ baked.tiles[1].width # baked.tiles[2].width

\* the sum of the start vertices of ledges[1 .. n]
RECURSIVE SumStarts(_, _)
SumStarts(ledges, n) ==
    IF n = 0 THEN <<0, 0, 0>>
    ELSE LET v == LedgeStart(bsp, ledges[n])
             rest == SumStarts(ledges, n - 1)
         IN  <<rest[1] + v[1], rest[2] + v[2], rest[3] + v[3]>>

\* the point p is the vertex v moved by origin
IsVertexAt(p, v, origin) ==
    \A c \in 1 .. 3 : p.v[c] = (origin[c] + v[c]) * p.den

\* the point p is the mean of the corners of the face (their sum over their
\* number n), moved by origin
IsCentroidAt(p, sum, n, origin) ==
    \A c \in 1 .. 3 : p.v[c] * n = (origin[c] * n + sum[c]) * p.den

\* C13: a face that is not skipped and has n ledges puts exactly 3n vertices
\* into exactly one stream (the sky stream if its texture name starts with
\* "sky", else the opaque stream), one wedge per ledge in ledge order: the
\* two endpoints of the ledge's edge, then the centroid of the face.
C13_ThreeVerticesPerLedge ==
    baked.status = "baked" =>
    \A k \in DOMAIN Visits :
       LET tex == VisitTexture(k)
           ledges == FaceLedges(bsp, VisitFace(k))
           n == Len(ledges)
           sky == Len(tex.name) >= 3 /\ SubSeq(tex.name, 1, 3) = <<"s", "k", "y">>
           mine == VerticesOf(IF sky THEN baked.verts_sky ELSE baked.verts, k)
           other == VerticesOf(IF sky THEN baked.verts ELSE baked.verts_sky, k)
           origin == VisitModel(k).origin
       IN  (tex.id # -1 /\ tex.name # <<"t", "r", "i", "g", "g", "e", "r">>) =>
             /\ Len(mine) = 3 * n
             /\ Len(other) = 0
             /\ \A j \in 1 .. n :
                   LET e == At(bsp.edges, Abs(ledges[j]))
                       first == mine[3 * j - 2].position
                       second == mine[3 * j - 1].position
                   IN  /\ \/ IsVertexAt(first, e[1], origin) /\ IsVertexAt(second, e[2], origin)
                          \/ IsVertexAt(first, e[2], origin) /\ IsVertexAt(second, e[1], origin)
                       /\ IsCentroidAt(mine[3 * j].position, SumStarts(ledges, n), n, origin)

\* a sky face and an opaque face of another model were emitted, one of them
\* with a ledge walked backwards
C13_Witness ==
    /\ baked.status = "baked"
    /\ Len(baked.verts) >= 9
    /\ Len(baked.verts_sky) >= 9
    /\ Len(bsp.models) = 2
    /\ \E k \in DOMAIN Visits : \E j \in DOMAIN FaceLedges(bsp, VisitFace(k)) :
          FaceLedges(bsp, VisitFace(k))[j] < 0

\* C14: a face whose texture has id -1 or is named exactly "trigger" puts no
\* vertex into the opaque or the sky stream and no tile into the lightmap
\* sizing pass.
C14_SkippedFacesEmitNothing ==
    baked.status = "baked" =>
    \A k \in DOMAIN Visits :
       (VisitTexture(k).id = -1
          \/ VisitTexture(k).name = <<"t", "r", "i", "g", "g", "e", "r">>) =>
             /\ Len(VerticesOf(baked.verts, k)) = 0
             /\ Len(VerticesOf(baked.verts_sky, k)) = 0
             /\ TilesOf(k) = {}

\* a "trigger" face with a lightmap offset was passed over next to a face
\* that was emitted and got a tile
C14_Witness ==
    /\ baked.status = "baked"
    /\ \E k \in DOMAIN Visits :
          /\ VisitTexture(k).name = <<"t", "r", "i", "g", "g", "e", "r">>
          /\ VisitFace(k).light_map # -1
          /\ VisitFace(k).type_light # 255
    /\ Len(baked.verts) > 0
    /\ Len(baked.tiles) > 0

\* C15: a face with light type 0xFF has no tile in the lightmap sizing pass,
\* and every vertex emitted for it has light_info = (-1, -1), whatever its
\* light_map offset is.
C15_FullbrightLightInfo ==
    baked.status = "baked" =>
    \A k \in DOMAIN Visits :
       VisitFace(k).type_light = 255 =>
          /\ TilesOf(k) = {}
          /\ \A i \in DOMAIN baked.verts :
                baked.verts[i].visit = k => baked.verts[i].light_info = <<-1, -1>>
          /\ \A i \in DOMAIN baked.verts_sky :
                baked.verts_sky[i].visit = k => baked.verts_sky[i].light_info = <<-1, -1>>

\* the areas of list fall or stay from each item to the next
AreasNonIncreasing(list) ==
    \A i, j \in DOMAIN list :
       i < j => list[i].width * list[i].height >= list[j].width * list[j].height

\* C23: the baker hands the textures to the texture atlas, and the light
\* tiles to the lightmap atlas, in non-increasing order of width * height.
C23_PackedLargestFirst ==
    baked.status = "baked" =>
       /\ AreasNonIncreasing(baked.t_list)
       /\ AreasNonIncreasing(baked.tiles)

\* the k-th face visited is emitted
Emitted(k) ==
    /\ VisitTexture(k).id # -1
    /\ VisitTexture(k).name # <<"t", "r", "i", "g", "g", "e", "r">>

\* the texture name of the k-th face visited starts with prefix
VisitNamed(k, prefix) ==
    /\ Len(VisitTexture(k).name) >= Len(prefix)
    /\ SubSeq(VisitTexture(k).name, 1, Len(prefix)) = prefix

\* the vertices emitted for the k-th face visited, of both streams
VisitVertices(k) == VerticesOf(baked.verts, k) \o VerticesOf(baked.verts_sky, k)

\* C24: every vertex emitted for a face whose texture name starts with '+'
\* or '*' carries light 127 and light_type 0xFF, whatever base_light and
\* type_light the face has.
C24_LiquidLight127 ==
    baked.status = "baked" =>
    \A k \in DOMAIN Visits :
       (Emitted(k) /\ (VisitNamed(k, <<"+">>) \/ VisitNamed(k, <<"*">>))) =>
          \A i \in DOMAIN VisitVertices(k) :
             /\ VisitVertices(k)[i].light = 127
             /\ VisitVertices(k)[i].light_type = 255

\* the sky faces among the faces visited
SkyVisits == {k \in DOMAIN Visits : Emitted(k) /\ VisitNamed(k, <<"s", "k", "y">>)}

\* the world positions (model origin + vertex) of the endpoints of the edges
\* of the sky faces
SkyPoints ==
    UNION { { [c \in 1 .. 3 |->
                 VisitModel(k).origin[c]
                 + At(bsp.edges, Abs(FaceLedges(bsp, VisitFace(k))[j]))[end][c]] :
              j \in DOMAIN FaceLedges(bsp, VisitFace(k)), end \in 1 .. 2 } :
            k \in SkyVisits }

\* C25: after the emission of a level with a sky face, sky_min and sky_max
\* are the component-wise minimum and maximum of the world positions of the
\* vertices of the sky faces, and of nothing else.
C25_SkyBoxIsBoundingBox ==
    (baked.status = "baked" /\ SkyVisits # {}) =>
       \A c \in 1 .. 3 :
          /\ \E p \in SkyPoints : p[c] = baked.sky_min[c]
          /\ \E p \in SkyPoints : p[c] = baked.sky_max[c]
          /\ \A p \in SkyPoints : baked.sky_min[c] <= p[c] /\ p[c] <= baked.sky_max[c]

\* the end vertex of the directed edge of a ledge: the endpoint that
\* LedgeStart does not give
LedgeEnd(b, ledge) ==
    IF ledge < 0 THEN At(b.edges, -ledge)[1] ELSE At(b.edges, ledge)[2]

\* the wedge of every ledge of every emitted face is: first, second, centroid
WedgesAre(First(_, _), Second(_, _)) ==
    baked.status = "baked" =>
    \A k \in DOMAIN Visits :
       LET ledges == FaceLedges(bsp, VisitFace(k))
           n == Len(ledges)
           origin == VisitModel(k).origin
       IN  Emitted(k) =>
             /\ Len(VisitVertices(k)) = 3 * n
             /\ \A j \in 1 .. n :
                   /\ IsVertexAt(VisitVertices(k)[3 * j - 2].position,
                                 First(bsp, ledges[j]), origin)
                   /\ IsVertexAt(VisitVertices(k)[3 * j - 1].position,
                                 Second(bsp, ledges[j]), origin)
                   /\ IsCentroidAt(VisitVertices(k)[3 * j].position,
                                   SumStarts(ledges, n), n, origin)

\* C26 as stated: for every ledge of an emitted face the first vertex of the
\* wedge is the start vertex of the directed edge (the one the sizing pass
\* uses: edge.0 for a ledge >= 0, edge.1 for a negative one), the second is
\* the end vertex, the third is the centroid.
C26_WedgeStartEndCentroid == WedgesAre(LedgeStart, LedgeEnd)

\* C26 amended: the first vertex of the wedge is the end vertex of the
\* directed edge (edge.1 for a ledge >= 0, edge.0 for a negative one), the
\* second is the start vertex, the one the sizing pass uses, and the third
\* is the centroid.
C26_WedgeEndStartCentroid == WedgesAre(LedgeEnd, LedgeStart)

\* a face with a ledge walked forwards and one walked backwards was emitted
C26_Witness ==
    /\ baked.status = "baked"
    /\ \E k \in DOMAIN Visits :
          /\ Emitted(k)
          /\ Len(VisitVertices(k)) = 9
          /\ \E j \in DOMAIN FaceLedges(bsp, VisitFace(k)) :
                FaceLedges(bsp, VisitFace(k))[j] < 0
          /\ \E j \in DOMAIN FaceLedges(bsp, VisitFace(k)) :
                FaceLedges(bsp, VisitFace(k))[j] > 0

\* C22 as stated: the number of rectangles in free_rects never decreases;
\* after every call of find it is at least what it was before the call.
C22_FreeListNeverShrinks ==
    [][ Len(atlas'.free_rects) >= Len(atlas.free_rects) ]_vars

\* the strips left of free rectangle chosen by a request of w x h: one to
\* the right when chosen is wider, one below when it is taller
Leftovers(chosen, w, h) ==
    (IF chosen.width > w THEN 1 ELSE 0) + (IF chosen.height > h THEN 1 ELSE 0)

\* C22 amended: a find that returns None leaves the number of free
\* rectangles as it is; a find that returns a rectangle removes the chosen
\* free rectangle and adds one for each non-empty leftover strip, so the
\* number changes by -1, 0 or +1 and goes down exactly on a perfect fit.
C22_FreeListLengthChange ==
    [][ \A w \in 1 .. MaxAtlas + 2, h \in 1 .. MaxAtlas + 2 :
           (lastFind'.w = w /\ lastFind'.h = h /\ Find(w, h)) =>
              /\ ~lastFind'.found =>
                    Len(atlas'.free_rects) = Len(atlas.free_rects)
              /\ lastFind'.found =>
                    /\ Len(atlas'.free_rects)
                          = Len(atlas.free_rects) - 1
                            + Leftovers(lastFind'.chosen, w + 2 * atlas.padding,
                                        h + 2 * atlas.padding)
                    /\ Len(atlas'.free_rects) < Len(atlas.free_rects)
                          <=> /\ lastFind'.chosen.width = w + 2 * atlas.padding
                              /\ lastFind'.chosen.height = h + 2 * atlas.padding
      ]_vars

\* the third find fitted a leftover strip exactly, and the free list is
\* shorter than after the second
C22_Witness ==
    /\ Len(placed) = 3
    /\ lastFind.found
    /\ lastFind.chosen.width = lastFind.w + 2 * atlas.padding
    /\ lastFind.chosen.height = lastFind.h + 2 * atlas.padding
    /\ lastFind.chosen.x + lastFind.chosen.y > 0
    /\ Len(atlas.free_rects) >= 1

-----------------------------------------------------------------------------
(* Properties of the frame loop, checked under SpecRender *)

\* the draw calls of a command buffer: each with the pipeline and the vertex
\* buffer bound when it is issued
RECURSIVE DrawCallsFrom(_, _, _, _)
DrawCallsFrom(commands, i, pipeline, buffer) ==
    IF i > Len(commands) THEN <<>>
    ELSE IF commands[i].op = "bind_graphics_pipeline"
    THEN DrawCallsFrom(commands, i + 1, commands[i].pipeline, buffer)
    ELSE IF commands[i].op = "bind_vertex_buffers"
    THEN DrawCallsFrom(commands, i + 1, pipeline, commands[i].buffer)
    ELSE IF commands[i].op = "draw"
    THEN << [pipeline |-> pipeline, buffer |-> buffer, count |-> commands[i].count] >>
         \o DrawCallsFrom(commands, i + 1, pipeline, buffer)
    ELSE DrawCallsFrom(commands, i + 1, pipeline, buffer)

DrawCalls(commands) == DrawCallsFrom(commands, 1, "", NoRes)

\* the three draw calls expected of level: sky box, sky surfaces, level
ExpectedDrawCalls(level) ==
    << [pipeline |-> "sky_pipeline", buffer |-> Res("buffer_sky_box", level.gen, 0),
        count |-> level.buffer_sky_box_count],
       [pipeline |-> "depth_pipeline", buffer |-> Res("buffer_sky", level.gen, 0),
        count |-> level.buffer_sky_count],
       [pipeline |-> "pipeline", buffer |-> Res("buffer", level.gen, 0),
        count |-> level.buffer_count] >>

\* the vertex counts of level are those of the bake of one of the levels
CountsFromBake(level) ==
    \E b \in RenderLevels :
       /\ level.buffer_count = Len(BakedLevels[b].verts)
       /\ level.buffer_sky_count = Len(BakedLevels[b].verts_sky)
       /\ level.buffer_sky_box_count = Len(BakedLevels[b].sky_box_verts)

\* C16: every call of QMap::draw (one per frame that acquired an image)
\* records exactly three draw calls, in this order: the sky-box buffer under
\* the sky pipeline, the sky-surface buffer under the depth pipeline, the
\* level buffer under the main pipeline, each with the vertex count that the
\* bake of the current level recorded.
C16_ThreeDrawCallsInOrder ==
    [][ \A display_size \in DisplaySizes, acquired \in 0 .. FramebufferCount - 1,
           present_ok \in BOOLEAN :
           Draw(display_size, acquired, present_ok) =>
              /\ CountsFromBake(rend.level)
              /\ DrawCalls(rend'.cmd_buffers[rend.frame % RingSize])
                    = ExpectedDrawCalls(rend.level)
              /\ DrawCalls(QMapDraw(rend.level).commands) = ExpectedDrawCalls(rend.level)
      ]_vars

\* a frame of a level with sky surfaces and walls was recorded
C16_Witness ==
    /\ rend.frame >= 1
    /\ rend.level.buffer_sky_count > 0
    /\ rend.level.buffer_count > 0
    /\ rend.level.buffer_sky_box_count = 12
    /\ \E slot \in DOMAIN rend.cmd_buffers :
          DrawCalls(rend.cmd_buffers[slot]) = ExpectedDrawCalls(rend.level)

\* C17: no device object is destroyed while a submitted command buffer that
\* refers to it may still execute: every destroy in change_level, in the
\* swapchain rebuild of draw, in Drop and in the staged uploads comes after
\* a wait-idle that follows the last submission referring to the object.
C17_NoDestroyWhilePending ==
    /\ ~gfxDevice.hazard
    /\ \A s \in gfxDevice.inflight : s.refs \subseteq gfxDevice.live

\* frames were pending when a wait-idle was reached, and since the start the
\* level was replaced, the swapchain rebuilt and the renderer dropped
C17_Witness ==
    /\ gfxDevice.drained
    /\ rend.level.gen >= 1
    /\ rend.swap_chain >= 1
    /\ rend.status = "dropped"
    /\ LevelResources(0) \cap gfxDevice.live = {}
    /\ SwapResources(0) \cap gfxDevice.live = {}

\* the images, views and framebuffers among the objects refs
SwapRefs(refs) == {r \in refs : r.kind \in {"framebuffer", "image_view", "depth"}}

\* C18: a failed acquire_image or present does not end the renderer; it sets
\* recreate_swapchain.  A draw call that finds the flag set destroys the
\* framebuffers, image views and depth images, builds the next swapchain
\* before it acquires an image, and clears the flag.  A call whose acquire
\* fails resets no fence, submits nothing and leaves the frame counter; when
\* it rebuilt nothing it leaves the device untouched.
C18_FailureRecreatesSwapchain ==
    [][ \A display_size \in DisplaySizes, acquired \in -1 .. FramebufferCount - 1,
           present_ok \in BOOLEAN :
           Draw(display_size, acquired, present_ok) =>
              /\ rend'.status = "running"
              /\ (acquired = -1 \/ ~present_ok) => rend'.recreate_swapchain
              /\ acquired = -1 =>
                    /\ rend'.frame = rend.frame
                    /\ rend'.cmd_buffers = rend.cmd_buffers
                    /\ gfxDevice'.inflight \subseteq gfxDevice.inflight
                    /\ \A slot \in DOMAIN gfxDevice.fences :
                          gfxDevice.fences[slot] => gfxDevice'.fences[slot]
                    /\ (~rend.recreate_swapchain /\ display_size = rend.display_size)
                          => gfxDevice' = gfxDevice
              /\ rend.recreate_swapchain =>
                    /\ SwapResources(rend.swap_chain) \cap gfxDevice'.live = {}
                    /\ SwapResources(rend.swap_chain + 1) \subseteq gfxDevice'.live
                    /\ rend'.swap_chain = rend.swap_chain + 1
                    /\ \A s \in gfxDevice'.inflight :
                          \A r \in SwapRefs(s.refs) : r.gen = rend.swap_chain + 1
                    /\ (acquired # -1 /\ present_ok) => ~rend'.recreate_swapchain
      ]_vars

\* a draw call found the flag set, rebuilt the swapchain and presented a frame
C18_Witness ==
    /\ rend.by_flag
    /\ ~rend.recreate_swapchain
    /\ rend.swap_chain >= 1
    /\ rend.frame >= 1
    /\ rend.status = "running"

\* the submissions of draw that have not completed
OutstandingFrames == {s \in gfxDevice.inflight : s.fence # -1}

\* C19: while the device completes submissions on its own, every fence slot
\* has at most one outstanding submission of draw, its fence is unsignalled,
\* and so at most framebuffer_count + 1 frames are outstanding.
C19_FramesInFlightBounded ==
    /\ \A slot \in DOMAIN gfxDevice.fences :
          Cardinality({s \in OutstandingFrames : s.fence = slot}) <= 1
    /\ \A s \in OutstandingFrames : ~gfxDevice.fences[s.fence]
    /\ Cardinality(OutstandingFrames) <= FramebufferCount + 1

\* the ring is full and a slot has been used a second time
C19_Witness ==
    /\ Cardinality(OutstandingFrames) = FramebufferCount + 1
    /\ rend.frame > RingSize

\* the staging buffers among the live objects
LiveStaging ==
    {r \in gfxDevice.live : r.kind \in {"staging_buffer", "staging_buffer_l"}}

\* C29: over any sequence of change_level calls every allocation made for a
\* level is freed exactly once: the staging buffers are gone when QMap::new
\* has returned, the three vertex buffers and two images of the old level
\* are gone after the next change_level or after Drop, no object is
\* destroyed twice, and a change_level leaves as many live allocations as it
\* found.
C29_LevelAllocationsFreedOnce ==
    /\ [](~gfxDevice.refreed /\ LiveStaging = {})
    /\ [](rend.status = "dropped" =>
             \A r \in gfxDevice.live : r \notin LevelResources(r.gen))
    /\ [][ \A b \in RenderLevels :
              (ChangeLevel(b) /\ rend'.status = "running") =>
                 /\ Cardinality(gfxDevice'.live) = Cardinality(gfxDevice.live)
                 /\ LevelResources(rend.level.gen) \cap gfxDevice'.live = {}
                 /\ LevelResources(rend'.level.gen) \subseteq gfxDevice'.live ]_vars

\* the fence of slot is signalled, or a pending submission will signal it
FenceWillSignal(slot) ==
    gfxDevice.fences[slot] \/ \E s \in gfxDevice.inflight : s.fence = slot

\* C30: on a device that completes every submitted command buffer, every
\* wait of draw on a submission-complete fence returns: each fence is
\* signalled or has a pending submission that signals it, also after failed
\* acquires and presents, so draw never waits for good and every fence that
\* was reset is signalled again.
C30_FenceWaitReturns ==
    /\ [](/\ rend.status # "hung"
          /\ \A slot \in 0 .. RingSize - 1 : FenceWillSignal(slot))
    /\ \A slot \in 0 .. RingSize - 1 :
          ~gfxDevice.fences[slot] ~> gfxDevice.fences[slot]

\* after a failed acquire or present the ring went round: draw waited for a
\* fence that an earlier frame had reset, and frames are pending
C30_Witness ==
    /\ rend.frame > RingSize
    /\ rend.swap_chain >= 1
    /\ rend.status = "running"
    /\ \E slot \in 0 .. RingSize - 1 : ~gfxDevice.fences[slot]

====
